---- MODULE Spec2Model ----
(***************************************************************************)
(* ComplianceGPT chat client: the streaming response consumer.             *)
(*                                                                         *)
(*   frontend/src/lib/api.ts                  submitQueryStream (decoder)  *)
(*   frontend/src/components/ChatWorkspace.tsx handleSend (reducer)        *)
(*   frontend/src/App.tsx                      onNewConversation           *)
(*   frontend/src/components/Sidebar.tsx       list, select, delete        *)
(*                                                                         *)
(* Text is a sequence of characters.  The framing of the wire format (the  *)
(* "data: " prefix, the line breaks, the "[DONE]" literal) is carried one  *)
(* character per element; a JSON text is carried as its lexical fragments  *)
(* (an opening fragment that holds the type discriminant, a value, the     *)
(* closing brace), so a chunk boundary can fall inside the prefix, inside  *)
(* the separator, inside the terminator and inside a JSON payload.         *)
(***************************************************************************)
EXTENDS Integers, Sequences, FiniteSets, TLC

(***************************************************************************)
(* Bounds of the model.                                                    *)
(***************************************************************************)
MaxSends   == 2    \* accepted submissions in one run
MaxReads   == 2    \* chunks the transport delivers to one stream
MaxRecords == 3    \* records of a response body whose cuts are enumerated
MaxTick    == 2    \* milliseconds the clock advances between submissions
MaxBurst   == 3    \* accepted submissions in one run of SpecBurst
MaxFetches == 2    \* fetchConversationDetail calls in flight at once
MaxNavSends == 1   \* accepted submissions in one run of SpecNav
MaxDeletes == 1    \* clicks on a delete button in one run

(***************************************************************************)
(* Characters and JSON fragments.                                          *)
(***************************************************************************)
NL == "\n"
SP == " "
Whitespace == {NL, SP}

DataPrefix   == <<"d", "a", "t", "a", ":", SP>>
DoneLiteral  == <<"[", "D", "O", "N", "E", "]">>
Separator    == <<NL, NL>>

OpenContent  == "{\"type\":\"content\",\"text\":"
OpenMetadata == "{\"type\":\"metadata\",\"data\":"
OpenConvId   == "{\"type\":\"conversation_id\",\"id\":"
OpenDone     == "{\"type\":\"done\""
OpenOther    == "{\"type\":\"ping\""
CloseBrace   == "}"

\* JSON string literals that occur as the "text" of a content record
TextOf == [x \in {"\"a\"", "\"b\""} |->
             IF x = "\"a\"" THEN <<"a">> ELSE <<"b">>]

\* JSON string literals that occur as the "id" of a conversation_id record
ConvIdOf == [x \in {"\"c1\""} |-> "c1"]

UNDEFINED == "undefined"
NULL      == "null"

\* JSON objects that occur as the "data" of a metadata record
MetaObj1 == "{\"citations\":[\"NIST-AC-2\"],\"frameworks_used\":[\"nist80053\"],\"retrieved_chunks\":[],\"mapping_mode\":false,\"incident_mode\":false}"
MetaObj2 == "{\"citations\":[\"ISO-A.9\"],\"frameworks_used\":[\"iso27001\"],\"retrieved_chunks\":[],\"mapping_mode\":true}"

MetaOf == [x \in {MetaObj1, MetaObj2} |->
             IF x = MetaObj1
             THEN [citations |-> <<"NIST-AC-2">>, frameworks_used |-> <<"nist80053">>,
                   retrieved_chunks |-> <<>>, mapping_mode |-> "false",
                   incident_mode |-> "false"]
             ELSE [citations |-> <<"ISO-A.9">>, frameworks_used |-> <<"iso27001">>,
                   retrieved_chunks |-> <<>>, mapping_mode |-> "true",
                   incident_mode |-> UNDEFINED]]

(***************************************************************************)
(* String primitives of the JavaScript runtime, on character sequences.    *)
(***************************************************************************)
Last(s)  == s[Len(s)]
Front(s) == SubSeq(s, 1, Len(s) - 1)

\* String.prototype.trim
RECURSIVE TrimLeft(_)
TrimLeft(s) ==
    IF s # <<>> /\ Head(s) \in Whitespace THEN TrimLeft(Tail(s)) ELSE s

RECURSIVE TrimRight(_)
TrimRight(s) ==
    IF s # <<>> /\ Last(s) \in Whitespace THEN TrimRight(Front(s)) ELSE s

Trim(s) == TrimRight(TrimLeft(s))

\* String.prototype.startsWith
StartsWith(s, p) == Len(s) >= Len(p) /\ SubSeq(s, 1, Len(p)) = p

\* String.prototype.substring(n)
Substring(s, n) == SubSeq(s, n + 1, Len(s))

\* positions at which the separator matches
SepAt(s) == {i \in 1..(Len(s) - 1) : s[i] = NL /\ s[i + 1] = NL}

\* String.prototype.split('\n\n'): leftmost matches, never overlapping
RECURSIVE Split(_)
Split(s) ==
    IF SepAt(s) = {}
    THEN <<s>>
    ELSE LET i == CHOOSE j \in SepAt(s) : \A k \in SepAt(s) : j <= k
         IN  <<SubSeq(s, 1, i - 1)>> \o Split(SubSeq(s, i + 2, Len(s)))

\* JSON.parse on the fragments of a JSON text; surrounding whitespace is
\* accepted, anything that is not a complete value throws (ok = FALSE)
JsonParse(str) ==
    LET p == Trim(str) IN
    IF Len(p) = 3 /\ p[1] = OpenContent /\ p[2] \in DOMAIN TextOf /\ p[3] = CloseBrace
    THEN [ok |-> TRUE, type |-> "content", text |-> TextOf[p[2]]]
    ELSE IF Len(p) = 3 /\ p[1] = OpenMetadata /\ p[2] \in DOMAIN MetaOf /\ p[3] = CloseBrace
    THEN [ok |-> TRUE, type |-> "metadata", data |-> MetaOf[p[2]]]
    ELSE IF Len(p) = 3 /\ p[1] = OpenConvId /\ p[2] \in DOMAIN ConvIdOf /\ p[3] = CloseBrace
    THEN [ok |-> TRUE, type |-> "conversation_id", id |-> ConvIdOf[p[2]]]
    ELSE IF Len(p) = 2 /\ p[1] = OpenDone /\ p[2] = CloseBrace
    THEN [ok |-> TRUE, type |-> "done"]
    ELSE IF Len(p) = 2 /\ p[1] = OpenOther /\ p[2] = CloseBrace
    THEN [ok |-> TRUE, type |-> "ping"]
    ELSE [ok |-> FALSE]

(***************************************************************************)
(* submitQueryStream: the body of the read loop.                           *)
(* A callback invocation is a record [cb, arg].                            *)
(***************************************************************************)
Call(cb, arg) == [cb |-> cb, arg |-> arg]
NoArg == [none |-> TRUE]

\* a plausible slip: the parse error leaves the function
ParseFailureAborts == [calls |-> <<>>, returned |-> TRUE]

\* the catch of a payload that fails to parse (api.ts 169-171): logged, the
\* loop goes on
ParseFailure == [calls |-> <<>>, returned |-> FALSE]

\* a plausible slip: Done is emitted for '[DONE]' but the loop goes on
TerminatorLiteralGoesOn == [calls |-> <<Call("onComplete", NoArg)>>, returned |-> FALSE]

\* the payload is '[DONE]' (api.ts 153-156): onComplete, return
TerminatorLiteral == [calls |-> <<Call("onComplete", NoArg)>>, returned |-> TRUE]

\* a plausible slip: a record of type 'done' is left to the end of the stream
TerminatorRecordGoesOn == [calls |-> <<Call("onComplete", NoArg)>>, returned |-> FALSE]

\* the record has type 'done' (api.ts 165-167): onComplete, return
TerminatorRecord == [calls |-> <<Call("onComplete", NoArg)>>, returned |-> TRUE]

\* a plausible slip: a segment that is not a record leaves the function
PrefixMissingReturns == [calls |-> <<>>, returned |-> TRUE]

\* the segment does not start with 'data: ' (api.ts 151, no else branch):
\* nothing is invoked, the loop goes on
PrefixMissing == [calls |-> <<>>, returned |-> FALSE]

\* a plausible slip: the chain of tests ends in an else that takes every
\* other type for the end of the stream
RouteElseCompletes(parsed) ==
    IF parsed.type = "metadata"
    THEN [calls |-> <<Call("onMetadata", parsed.data)>>, returned |-> FALSE]
    ELSE IF parsed.type = "content"
    THEN [calls |-> <<Call("onToken", [text |-> parsed.text])>>, returned |-> FALSE]
    ELSE IF parsed.type = "conversation_id"
    THEN [calls |-> <<Call("onConversationId", [id |-> parsed.id])>>, returned |-> FALSE]
    ELSE TerminatorRecord

\* the chain of tests on parsed.type (api.ts 159-168)
Route(parsed) ==
    IF parsed.type = "metadata"
    THEN [calls |-> <<Call("onMetadata", parsed.data)>>, returned |-> FALSE]
    ELSE IF parsed.type = "content"
    THEN [calls |-> <<Call("onToken", [text |-> parsed.text])>>, returned |-> FALSE]
    ELSE IF parsed.type = "conversation_id"
    THEN [calls |-> <<Call("onConversationId", [id |-> parsed.id])>>, returned |-> FALSE]
    ELSE IF parsed.type = "done"
    THEN TerminatorRecord
    ELSE [calls |-> <<>>, returned |-> FALSE]

\* the callbacks one candidate record produces, and whether the function
\* returns after it (api.ts 150-172)
LineCalls(line) ==
    IF Trim(line) = <<>>
    THEN [calls |-> <<>>, returned |-> FALSE]
    ELSE IF ~StartsWith(line, DataPrefix)
    THEN PrefixMissing
    ELSE LET dataStr == Substring(line, 6)
             parsed  == JsonParse(dataStr)
         IN  IF dataStr = DoneLiteral
             THEN TerminatorLiteral
             ELSE IF ~parsed.ok
             THEN ParseFailure
             ELSE Route(parsed)

\* the for loop over the complete segments (api.ts 149-173)
RECURSIVE LinesCalls(_)
LinesCalls(lines) ==
    IF lines = <<>>
    THEN [calls |-> <<>>, returned |-> FALSE]
    ELSE LET h == LineCalls(Head(lines)) IN
         IF h.returned
         THEN h
         ELSE LET t == LinesCalls(Tail(lines)) IN
              [calls |-> h.calls \o t.calls, returned |-> t.returned]

\* a plausible slip: the remainder kept from the previous chunk is lost
CarryDropped(buffer, chunk) == chunk

\* buffer += decoder.decode(value, { stream: true }) (api.ts 144)
Carry(buffer, chunk) == buffer \o chunk

\* one iteration of the while loop for a chunk that is not end-of-stream
\* (api.ts 144-173): the new buffer, the callbacks, whether it returned
ProcessChunk(buffer, chunk) ==
    LET joined == Carry(buffer, chunk)
        lines  == Split(joined)
        run    == LinesCalls(Front(lines))
    IN  [buffer |-> Last(lines), calls |-> run.calls, returned |-> run.returned]


(***************************************************************************)
(* State.                                                                  *)
(***************************************************************************)
VARIABLES
    messages,               \* ChatWorkspace: useState<ChatMessage[]>
    input,                  \* ChatWorkspace: the textarea's value
    loading,                \* ChatWorkspace: the "awaiting response" flag
    isFetchingHistory,      \* ChatWorkspace
    error,                  \* ChatWorkspace: string or NULL
    isWelcome,              \* ChatWorkspace
    selectedFrameworks,     \* ChatWorkspace: Set<string>
    justCreatedRef,         \* ChatWorkspace: useRef(false)
    activeConversationId,   \* App: string or NULL
    triggerRefetch,         \* App: counter
    now,                    \* the last value Date.now() returned
    streams,                \* one record per call of submitQueryStream
    requests,               \* the POST /api/query requests issued, in order
    reads,                  \* per stream: chunks the transport chose to deliver
    history,                \* the fetchConversationDetail calls in flight
    conversations,          \* Sidebar: useState<Conversation[]>
    listFetches,            \* the fetchConversations calls in flight
    deletes,                \* one record per call of Sidebar's handleDelete
    server,                 \* the conversations the server stores
    session,                \* supabase.auth: the access token, or NULL
    apiCalls,               \* the calls of api.ts's functions, in call order
    isReportModalOpen,      \* ChatWorkspace: useState(false)
    modalState,             \* ReportModal: 'selecting' | 'generating' | 'preview'
    reportType,             \* ReportModal: useState('summary')
    reportContent,          \* ReportModal: useState('')
    reportCalls,            \* the generateReport calls of handleGenerate
    today,                  \* the day of new Date() in the sidebar's renders
    grouped,                \* Sidebar: groupConversationsByDate(conversations)
    diagramMounted,         \* whether the MermaidDiagram is mounted
    chart,                  \* MermaidDiagram: the chart prop
    svgContent,             \* MermaidDiagram: useState('')
    diagramError,           \* MermaidDiagram: error, useState(false)
    renders                 \* one record per run of MermaidDiagram's effect

viewVars == <<messages, input, loading, isFetchingHistory, error, isWelcome,
              selectedFrameworks, justCreatedRef, activeConversationId,
              triggerRefetch>>
sidebarVars == <<conversations, listFetches, deletes, server>>
chatVars == <<messages, input, loading, isFetchingHistory, error, isWelcome,
              selectedFrameworks, justCreatedRef, activeConversationId,
              triggerRefetch, now, streams, requests, reads, history>>
apiVars == <<session, apiCalls>>
reportVars == <<isReportModalOpen, modalState, reportType, reportContent,
                reportCalls>>
groupVars == <<today, grouped>>
diagramVars == <<diagramMounted, chart, svgContent, diagramError, renders>>
restVars == <<apiVars, reportVars, groupVars, diagramVars>>
notApiVars == <<chatVars, sidebarVars, reportVars, groupVars, diagramVars>>
notReportVars == <<chatVars, sidebarVars, apiVars, groupVars, diagramVars>>
notGroupVars == <<chatVars, sidebarVars, apiVars, reportVars, diagramVars>>
notDiagramVars == <<chatVars, sidebarVars, apiVars, reportVars, groupVars>>
vars == <<messages, input, loading, isFetchingHistory, error, isWelcome,
          selectedFrameworks, justCreatedRef, activeConversationId,
          triggerRefetch, now, streams, requests, reads, history,
          conversations, listFetches, deletes, server, session, apiCalls,
          isReportModalOpen, modalState, reportType, reportContent,
          reportCalls, today, grouped,
          diagramMounted, chart, svgContent, diagramError, renders>>

FRAMEWORK_OPTIONS == {"nist80053", "iso27001", "nistcsf"}
SUGGESTION_CARDS  == {<<"m", "a", "p">>}

\* what the user types into the textarea: a question, or blanks only
Questions == {<<"q">>}
Inputs    == Questions \cup {<<SP>>}

(***************************************************************************)
(* Number.prototype.toString for a non-negative integer.                   *)
(***************************************************************************)
Digit(d) == CASE d = 0 -> "0" [] d = 1 -> "1" [] d = 2 -> "2" [] d = 3 -> "3"
              [] d = 4 -> "4" [] d = 5 -> "5" [] d = 6 -> "6" [] d = 7 -> "7"
              [] d = 8 -> "8" [] d = 9 -> "9"

RECURSIVE NumberToString(_)
NumberToString(n) ==
    IF n < 10 THEN <<Digit(n)>>
    ELSE NumberToString(n \div 10) \o <<Digit(n % 10)>>

(***************************************************************************)
(* The callbacks handleSend passes to submitQueryStream, as functions of   *)
(* the component's state v and of the closure of that call of handleSend   *)
(* (assistantMsgId, assistantCreated).  State updaters run in the order    *)
(* in which they were queued.                                              *)
(***************************************************************************)
MetaFields(data) ==
    [citations       |-> data.citations,
     frameworks_used |-> data.frameworks_used,
     evidence        |-> data.retrieved_chunks,
     mapping_mode    |-> data.mapping_mode,
     incident_mode   |-> data.incident_mode]

\* the message created by the first Metadata (ChatWorkspace.tsx 112-121)
MetadataMessage(assistantMsgId, data) ==
    MetaFields(data) @@ [id |-> assistantMsgId, role |-> "assistant", content |-> <<>>]

\* ChatWorkspace.tsx 107-135
OnMetadata(v, assistantMsgId, data) ==
    [v EXCEPT
       !.messages =
           IF ~v.assistantCreated
           THEN Append(v.messages, MetadataMessage(assistantMsgId, data))
           ELSE [i \in DOMAIN v.messages |->
                   IF v.messages[i].id = assistantMsgId
                   THEN MetaFields(data) @@ v.messages[i]
                   ELSE v.messages[i]],
       !.assistantCreated = TRUE,
       !.loading = FALSE]

\* a plausible slip: the first token's message is given empty metadata
TokenMessageWithMetadata(assistantMsgId, token) ==
    [id |-> assistantMsgId, role |-> "assistant", content |-> token,
     citations |-> <<>>, evidence |-> <<>>]

\* the message created by the first ContentToken (ChatWorkspace.tsx 141-145)
TokenMessage(assistantMsgId, token) ==
    [id |-> assistantMsgId, role |-> "assistant", content |-> token]

\* a plausible slip: the token replaces the content
TokenReplacesContent(content, token) == token

\* a plausible slip: a token equal to the end of the content is taken for a
\* repetition and dropped
AppendTokenDeduplicated(content, token) ==
    IF Len(content) >= Len(token)
       /\ SubSeq(content, Len(content) - Len(token) + 1, Len(content)) = token
    THEN content
    ELSE content \o token

\* msg.content + token (ChatWorkspace.tsx 148)
AppendToken(content, token) == content \o token

\* a plausible slip: the closure's flag is not consulted, every token appends
\* a message
OnTokenAlwaysAppends(v, assistantMsgId, token) ==
    [v EXCEPT
       !.messages = Append(v.messages, TokenMessage(assistantMsgId, token)),
       !.assistantCreated = TRUE]

\* ChatWorkspace.tsx 136-151
OnToken(v, assistantMsgId, token) ==
    [v EXCEPT
       !.messages =
           IF ~v.assistantCreated
           THEN Append(v.messages, TokenMessage(assistantMsgId, token))
           ELSE [i \in DOMAIN v.messages |->
                   IF v.messages[i].id = assistantMsgId
                   THEN [v.messages[i] EXCEPT !.content = AppendToken(@, token)]
                   ELSE v.messages[i]],
       !.assistantCreated = TRUE]

\* a plausible slip: the ref that makes the effect skip the fetch is not set
OnConversationIdRefUnset(v, id) ==
    [v EXCEPT !.activeConversationId = id,
              !.triggerRefetch = @ + 1]

\* ChatWorkspace.tsx 152-155 with App.tsx 50-53
OnConversationId(v, id) ==
    [v EXCEPT !.justCreatedRef = TRUE,
              !.activeConversationId = id,
              !.triggerRefetch = @ + 1]

\* a plausible slip: the failed stream's partial message is taken back
OnErrorRollsBack(v, message) ==
    [v EXCEPT !.error = IF message = "" THEN "Streaming failed." ELSE message,
              !.loading = FALSE,
              !.messages = SelectSeq(v.messages, LAMBDA m : m.role = "user")]

\* a plausible slip: the error is shown but the loading flag is left set
OnErrorKeepsLoading(v, message) ==
    [v EXCEPT !.error = IF message = "" THEN "Streaming failed." ELSE message]

\* ChatWorkspace.tsx 156-160
OnError(v, message) ==
    [v EXCEPT !.error = IF message = "" THEN "Streaming failed." ELSE message,
              !.loading = FALSE]

\* ChatWorkspace.tsx 161-163
OnComplete(v) == [v EXCEPT !.loading = FALSE]

ApplyCall(v, assistantMsgId, call) ==
    CASE call.cb = "onMetadata"       -> OnMetadata(v, assistantMsgId, call.arg)
      [] call.cb = "onToken"          -> OnToken(v, assistantMsgId, call.arg.text)
      [] call.cb = "onConversationId" -> OnConversationId(v, call.arg.id)
      [] call.cb = "onError"          -> OnError(v, call.arg.message)
      [] call.cb = "onComplete"       -> OnComplete(v)

RECURSIVE ApplyCalls(_, _, _)
ApplyCalls(v, assistantMsgId, calls) ==
    IF calls = <<>> THEN v
    ELSE ApplyCalls(ApplyCall(v, assistantMsgId, Head(calls)), assistantMsgId, Tail(calls))

\* ChatWorkspace.tsx 52-79: the effect that runs after a render in which
\* activeId differs from the previous render's
ActiveIdEffect(v, previousActiveId) ==
    IF v.activeConversationId = previousActiveId
    THEN v
    ELSE IF v.activeConversationId = NULL
    THEN [v EXCEPT !.messages = <<>>, !.isWelcome = TRUE]
    ELSE IF v.justCreatedRef
    THEN [v EXCEPT !.justCreatedRef = FALSE, !.isWelcome = FALSE]
    ELSE [v EXCEPT !.isWelcome = FALSE, !.isFetchingHistory = TRUE]

\* the component's state seen by the callbacks of stream s
ViewOf(s) ==
    [messages             |-> messages,
     loading              |-> loading,
     error                |-> error,
     isWelcome            |-> isWelcome,
     isFetchingHistory    |-> isFetchingHistory,
     justCreatedRef       |-> justCreatedRef,
     activeConversationId |-> activeConversationId,
     triggerRefetch       |-> triggerRefetch,
     assistantCreated     |-> streams[s].assistantCreated]

\* run the callbacks of stream s, then render and run the effect
Commit(s, calls) ==
    ActiveIdEffect(ApplyCalls(ViewOf(s), streams[s].assistantMsgId, calls),
                   activeConversationId)

SetView(v) ==
    /\ messages' = v.messages
    /\ loading' = v.loading
    /\ error' = v.error
    /\ isWelcome' = v.isWelcome
    /\ isFetchingHistory' = v.isFetchingHistory
    /\ justCreatedRef' = v.justCreatedRef
    /\ activeConversationId' = v.activeConversationId
    /\ triggerRefetch' = v.triggerRefetch


(***************************************************************************)
(* What the server writes.                                                 *)
(***************************************************************************)
Record(payload) == DataPrefix \o payload \o Separator

PayloadOf(kind) ==
    CASE kind = "metadata"        -> <<OpenMetadata, MetaObj1, CloseBrace>>
      [] kind = "metadata2"       -> <<OpenMetadata, MetaObj2, CloseBrace>>
      [] kind = "tokenA"          -> <<OpenContent, "\"a\"", CloseBrace>>
      [] kind = "tokenB"          -> <<OpenContent, "\"b\"", CloseBrace>>
      [] kind = "conversation_id" -> <<OpenConvId, "\"c1\"", CloseBrace>>
      [] kind = "DONE"            -> DoneLiteral
      [] kind = "done"            -> <<OpenDone, CloseBrace>>
      [] kind = "ping"            -> <<OpenOther, CloseBrace>>
      [] kind = "malformed"       -> <<OpenContent, "\"a\"">>

\* the bytes of one piece of a response body: a record, a comment line, a
\* blank keep-alive line, a record whose prefix lacks the space, a lone line
\* break, or a record that lacks its separator
Piece(kind) ==
    CASE kind = "comment"  -> <<":", NL, NL>>
      [] kind = "blank"    -> Separator
      [] kind = "nospace"  -> <<"d", "a", "t", "a", ":">> \o PayloadOf("tokenB") \o Separator
      [] kind = "newline"  -> <<NL>>
      [] kind = "unterminated" -> DataPrefix \o PayloadOf("tokenB")
      [] kind = "unterminatedDONE" -> DataPrefix \o DoneLiteral
      [] kind = "halfTerminated" -> DataPrefix \o PayloadOf("tokenB") \o <<NL>>
      [] OTHER -> Record(PayloadOf(kind))

RECURSIVE Encode(_)
Encode(kinds) ==
    IF kinds = <<>> THEN <<>> ELSE Piece(Head(kinds)) \o Encode(Tail(kinds))

\* the pieces of the response bodies whose every cut is enumerated
BodyKinds == {"metadata", "tokenA", "tokenB", "conversation_id", "DONE",
              "done", "ping", "malformed", "comment", "blank", "nospace", "newline"}

Bodies == UNION {[1..n -> BodyKinds] : n \in 0..MaxRecords}

\* the chunks the transport delivers when the chunks are chosen one by one
ChunkKinds == {"metadata", "tokenA", "tokenB", "conversation_id", "DONE", "unterminated"}
Chunks     == {Piece(k) : k \in ChunkKinds} \cup {Separator}

(***************************************************************************)
(* Initial state: the components as mounted, no query submitted; the       *)
(* sidebar's first fetchConversations is in flight (Sidebar.tsx 53-57).    *)
(***************************************************************************)
ClockStart == 8

\* the user is signed in and no function of api.ts has been called
\* (App.tsx renders the workspace only with a session); the report modal
\* is closed, with the initial values of its useState calls; the sidebar
\* has grouped its empty list; no diagram is mounted
Today == 40

InitRest ==
    /\ today = Today
    /\ grouped = <<>>
    /\ diagramMounted = FALSE
    /\ chart = ""
    /\ svgContent = ""
    /\ diagramError = FALSE
    /\ renders = <<>>
    /\ session = "t1"
    /\ apiCalls = <<>>
    /\ isReportModalOpen = FALSE
    /\ modalState = "selecting"
    /\ reportType = "summary"
    /\ reportContent = ""
    /\ reportCalls = <<>>

\* a fetchConversations call whose request the server has not answered yet
ListPending == [arrived |-> FALSE, list |-> <<>>]

InitWith(listed, fetches, stored) ==
    /\ messages = <<>>
    /\ input = <<>>
    /\ loading = FALSE
    /\ isFetchingHistory = FALSE
    /\ error = NULL
    /\ isWelcome = TRUE
    /\ selectedFrameworks = FRAMEWORK_OPTIONS
    /\ justCreatedRef = FALSE
    /\ activeConversationId = NULL
    /\ triggerRefetch = 0
    /\ now = ClockStart
    /\ streams = <<>>
    /\ requests = <<>>
    /\ reads = <<>>
    /\ history = <<>>
    /\ conversations = listed
    /\ listFetches = fetches
    /\ deletes = <<>>
    /\ server = stored
    /\ InitRest

Init == InitWith(<<>>, <<ListPending>>, <<[id |-> "c2"]>>)

(***************************************************************************)
(* User actions.                                                           *)
(***************************************************************************)
\* textarea onChange; the textarea is disabled while loading
TypeInput(t) ==
    /\ ~loading
    /\ input # t
    /\ input' = t
    /\ UNCHANGED <<messages, loading, isFetchingHistory, error, isWelcome,
                   selectedFrameworks, justCreatedRef, activeConversationId,
                   triggerRefetch, now, streams, requests, reads, history, sidebarVars, restVars>>

\* framework chip onClick; the chips are disabled while loading
ToggleFramework(fw) ==
    /\ ~loading
    /\ selectedFrameworks' = IF fw \in selectedFrameworks
                             THEN selectedFrameworks \ {fw}
                             ELSE selectedFrameworks \cup {fw}
    /\ UNCHANGED <<messages, input, loading, isFetchingHistory, error, isWelcome,
                   justCreatedRef, activeConversationId, triggerRefetch, now,
                   streams, requests, reads, history, sidebarVars, restVars>>

\* the stream record of a fresh call of submitQueryStream, up to its first await
NewStream(text, t) ==
    [question         |-> text,
     frameworks       |-> selectedFrameworks,
     conversation_id  |-> activeConversationId,
     userMsgId        |-> NumberToString(t),
     assistantMsgId   |-> NumberToString(t + 1),
     assistantCreated |-> FALSE,
     pc               |-> "headers",
     buffer           |-> <<>>,
     calls            |-> <<>>,
     wire             |-> <<>>,
     eof              |-> FALSE,
     received         |-> <<>>,
     body             |-> <<>>,
     abandoned        |-> FALSE]

\* ChatWorkspace.tsx 81-106: handleSend up to the first await of
\* submitQueryStream.  overrideInput = <<>> stands for no argument; typed is
\* the textarea value left by the event handler that called handleSend.
\* Date.now() has advanced since the previous accepted submission: a render
\* and a response of the network separate two accepted submissions.
HandleSendWithin(limit, overrideInput, typed) ==
    LET text == Trim(IF overrideInput # <<>> THEN overrideInput ELSE input) IN
    IF text = <<>> \/ loading \/ isFetchingHistory
    THEN /\ input' = typed
         /\ input' # input
         /\ UNCHANGED <<messages, loading, isFetchingHistory, error, isWelcome,
                        selectedFrameworks, justCreatedRef, activeConversationId,
                        triggerRefetch, now, streams, requests, reads, history, sidebarVars, restVars>>
    ELSE \E t \in (now + 1)..(now + MaxTick) :
         /\ Len(streams) < limit
         /\ now' = t
         /\ isWelcome' = FALSE
         /\ messages' = Append(messages,
                               [id |-> NumberToString(t), role |-> "user", content |-> text])
         /\ input' = <<>>
         /\ loading' = TRUE
         /\ error' = NULL
         /\ streams' = Append(streams, NewStream(text, t))
         /\ reads' = Append(reads, 0)
         /\ UNCHANGED <<isFetchingHistory, selectedFrameworks, justCreatedRef,
                        activeConversationId, triggerRefetch, requests, history, sidebarVars, restVars>>

HandleSend(overrideInput, typed) == HandleSendWithin(MaxSends, overrideInput, typed)

\* the send button (ChatWorkspace.tsx 317-325) and its disabled attribute
ClickSend ==
    /\ ~(Trim(input) = <<>> \/ loading \/ isFetchingHistory \/ selectedFrameworks = {})
    /\ HandleSend(<<>>, input)

\* handleKeyDown (ChatWorkspace.tsx 174-179): Enter in the enabled textarea
PressEnter ==
    /\ ~loading
    /\ HandleSend(<<>>, input)

\* the same key, in the runs of three submissions
PressEnterBurst ==
    /\ ~loading
    /\ HandleSendWithin(MaxBurst, <<>>, input)

\* the same key, in the runs with navigation
PressEnterNav ==
    /\ ~loading
    /\ HandleSendWithin(MaxNavSends, <<>>, input)

\* handleSuggestionClick (ChatWorkspace.tsx 181-184); the cards are rendered
\* on the welcome screen
ClickSuggestion(prompt) ==
    /\ isWelcome /\ ~isFetchingHistory
    /\ HandleSend(prompt, prompt)

(***************************************************************************)
(* submitQueryStream after its first await.                                *)
(***************************************************************************)
\* api.ts 109-115: the request body
RequestBody(st) ==
    (IF st.frameworks # {} THEN [frameworks |-> st.frameworks] ELSE <<>>)
    @@ (IF st.conversation_id # NULL THEN [conversation_id |-> st.conversation_id] ELSE <<>>)
    @@ [question |-> st.question, stream |-> TRUE]

\* api.ts 118-127: getAuthHeaders has resolved, the POST is issued
IssueFetch(s) ==
    /\ streams[s].pc = "headers"
    /\ streams' = [streams EXCEPT ![s].pc = "fetch"]
    /\ requests' = Append(requests, RequestBody(streams[s]))
    /\ UNCHANGED <<viewVars, now, reads, history, sidebarVars, restVars>>

\* api.ts 129-138: a 2xx response with a body; reading starts
FetchOk(s) ==
    /\ streams[s].pc = "fetch"
    /\ streams' = [streams EXCEPT ![s].pc = "reading"]
    /\ UNCHANGED <<viewVars, now, requests, reads, history, sidebarVars, restVars>>

\* the terminal callback of a failure (api.ts 176-178)
ErrorCalls(message) == <<Call("onError", [message |-> message])>>

\* a plausible slip: a failed request is sent again
FetchFailRetries(s, message) ==
    /\ streams[s].pc = "fetch"
    /\ requests' = Append(requests, RequestBody(streams[s]))
    /\ UNCHANGED <<viewVars, now, streams, reads, history, sidebarVars, restVars>>

\* api.ts 123-131: fetch rejects, or the response is not ok
FetchFail(s, message) ==
    /\ streams[s].pc = "fetch"
    /\ \E calls \in {ErrorCalls(message)} : \E v \in {Commit(s, calls)} :
           /\ SetView(v)
           /\ streams' = [streams EXCEPT ![s].pc = "failed",
                                         ![s].calls = @ \o calls]
    /\ UNCHANGED <<input, selectedFrameworks, now, requests, reads, history, sidebarVars, restVars>>

\* Sidebar.tsx 53-57: the effect on triggerRefetch calls fetchConversations
SidebarEffect(v) ==
    IF v.triggerRefetch # triggerRefetch
    THEN Append(listFetches, ListPending)
    ELSE listFetches

\* the server stores the conversations it has named in a stream
RECURSIVE StoredAfter(_, _)
StoredAfter(stored, calls) ==
    IF calls = <<>>
    THEN stored
    ELSE IF /\ Head(calls).cb = "onConversationId"
            /\ \A i \in DOMAIN stored : stored[i].id # Head(calls).arg.id
    THEN StoredAfter(Append(stored, [id |-> Head(calls).arg.id]), Tail(calls))
    ELSE StoredAfter(stored, Tail(calls))

\* a plausible slip: the buffer is a variable of the module, which every
\* call reads: a later call sees what the first has accumulated
BufferOfModule(s) == streams[1].buffer

\* let buffer = '' (api.ts 138): a local of the call
BufferOf(s) == streams[s].buffer

\* api.ts 141-173: reader.read() resolves with a chunk
ReadChunk(s, chunk) ==
    /\ streams[s].pc = "reading"
    /\ chunk # <<>>
    /\ \E r \in {ProcessChunk(BufferOf(s), chunk)} : \E v \in {Commit(s, r.calls)} :
           /\ SetView(v)
           /\ streams' = [streams EXCEPT
                            ![s].buffer = r.buffer,
                            ![s].calls = @ \o r.calls,
                            ![s].assistantCreated = v.assistantCreated,
                            ![s].received = @ \o chunk,
                            ![s].wire = SubSeq(@, Len(chunk) + 1, Len(@)),
                            ![s].pc = IF r.returned THEN "completed" ELSE "reading"]
           /\ listFetches' = SidebarEffect(v)
           /\ server' = StoredAfter(server, r.calls)
    /\ UNCHANGED <<input, selectedFrameworks, now, requests, history,
                   conversations, deletes, restVars>>

\* the transport delivers a chunk of its choice out of menu
ReadOf(s, menu) ==
    /\ streams[s].wire = <<>>
    /\ ~streams[s].eof
    /\ reads[s] < MaxReads
    /\ reads' = [reads EXCEPT ![s] = @ + 1]
    /\ \E chunk \in menu : ReadChunk(s, chunk)

Read(s) == ReadOf(s, Chunks)

\* a response of whole records only: a Metadata or a ContentToken per chunk
BurstChunks == {Piece("metadata"), Piece("tokenA")}

ReadBurst(s) == ReadOf(s, BurstChunks)

\* the transport delivers the next bytes of a body it holds, cut anywhere
ReadWire(s) ==
    /\ streams[s].wire # <<>>
    /\ \E n \in 1..Len(streams[s].wire) : ReadChunk(s, SubSeq(streams[s].wire, 1, n))
    /\ UNCHANGED reads

\* a plausible slip: the end of the transport is not reported
NoEndOfStreamCalls == <<>>

\* the callbacks after the loop is left by break (api.ts 175)
EndOfStreamCalls == <<Call("onComplete", NoArg)>>

\* a plausible slip: at the end of the transport what is left in the buffer
\* is decoded as a last record
ReadDoneFlushes(s) ==
    /\ streams[s].pc = "reading"
    /\ streams[s].wire = <<>>
    /\ \E r \in {LineCalls(streams[s].buffer)} :
       \E calls \in {IF r.returned THEN r.calls ELSE r.calls \o EndOfStreamCalls} :
       \E v \in {Commit(s, calls)} :
           /\ SetView(v)
           /\ streams' = [streams EXCEPT ![s].pc = "completed",
                                         ![s].eof = TRUE,
                                         ![s].assistantCreated = v.assistantCreated,
                                         ![s].calls = @ \o calls]
    /\ UNCHANGED <<input, selectedFrameworks, now, requests, reads, history, sidebarVars, restVars>>

\* api.ts 141-142, 175: reader.read() resolves with done; eof records that
\* the server has closed the body
ReadDone(s) ==
    /\ streams[s].pc = "reading"
    /\ streams[s].wire = <<>>
    /\ \E calls \in {EndOfStreamCalls} : \E v \in {Commit(s, calls)} :
           /\ SetView(v)
           /\ streams' = [streams EXCEPT ![s].pc = "completed",
                                         ![s].eof = TRUE,
                                         ![s].calls = @ \o calls]
    /\ UNCHANGED <<input, selectedFrameworks, now, requests, reads, history, sidebarVars, restVars>>

\* api.ts 141, 176-178: reader.read() rejects.  A body that the server has
\* closed and whose bytes have all been delivered can no longer fail.
ReadFail(s, message) ==
    /\ streams[s].pc = "reading"
    /\ ~streams[s].eof \/ streams[s].wire # <<>>
    /\ \E calls \in {ErrorCalls(message)} : \E v \in {Commit(s, calls)} :
           /\ SetView(v)
           /\ streams' = [streams EXCEPT ![s].pc = "failed",
                                         ![s].calls = @ \o calls]
    /\ UNCHANGED <<input, selectedFrameworks, now, requests, reads, history, sidebarVars, restVars>>

ErrorMessages == {"network error", ""}

\* err.message of a failure before the body is read: a response that is not
\* ok (api.ts 129-131), or fetch rejecting
FetchErrorMessages == {"API error: Internal Server Error", "Failed to fetch"}

(***************************************************************************)
(* Navigation: the sidebar selects a conversation or a new chat, and the   *)
(* effect of ChatWorkspace on activeId fetches the history.                *)
(***************************************************************************)
\* ids of conversations: "c1" is the one the server assigns in a stream,
\* "c2" one that the sidebar lists
ConversationIds == {"c1", "c2"}

\* what GET /api/conversations/:id answers
StoredMessages(id) ==
    <<[id |-> <<"s", "1">>, role |-> "user", content |-> <<"h">>],
      [id |-> <<"s", "2">>, role |-> "assistant",
       content |-> IF id = "c1" THEN <<"x">> ELSE <<"y">>]>>

\* a detail with its messages, or one whose messages key is missing
Details(id) == {[present |-> TRUE, messages |-> StoredMessages(id)],
                [present |-> FALSE, messages |-> <<>>]}

\* ChatWorkspace.tsx 72: data.messages || []
MessagesOrEmpty(data) == IF data.present THEN data.messages ELSE <<>>

\* the component's state outside the callbacks of a stream
View ==
    [messages             |-> messages,
     loading              |-> loading,
     error                |-> error,
     isWelcome            |-> isWelcome,
     isFetchingHistory    |-> isFetchingHistory,
     justCreatedRef       |-> justCreatedRef,
     activeConversationId |-> activeConversationId,
     triggerRefetch       |-> triggerRefetch]

\* Sidebar.tsx 88, 101 and App.tsx 45: onSelect(id) is setActiveConversationId;
\* ChatWorkspace renders with the new activeId and its effect runs
\* (ChatWorkspace.tsx 52-79).  No stream is told about it: the open streams
\* are only marked as belonging to the view that was left.
Navigate(id) ==
    /\ id # activeConversationId
    /\ \E v \in {ActiveIdEffect([View EXCEPT !.activeConversationId = id],
                                 activeConversationId)} :
           /\ SetView(v)
           /\ IF v.isFetchingHistory /\ id # NULL /\ ~justCreatedRef
              THEN /\ Len(history) < MaxFetches
                   /\ history' = Append(history, id)
              ELSE history' = history
    /\ streams' = [s \in DOMAIN streams |->
                     IF streams[s].pc \in {"completed", "failed"}
                     THEN streams[s]
                     ELSE [streams[s] EXCEPT !.abandoned = TRUE]]
    /\ UNCHANGED <<input, selectedFrameworks, now, requests, reads>>

SelectConversation(id) == Navigate(id) /\ UNCHANGED <<sidebarVars, restVars>>

RemoveAt(seq, k) == SubSeq(seq, 1, k - 1) \o SubSeq(seq, k + 1, Len(seq))

\* ChatWorkspace.tsx 70-73, 78: fetchConversationDetail resolves
HistoryLoaded(k, data) ==
    /\ k \in DOMAIN history
    /\ messages' = MessagesOrEmpty(data)
    /\ isFetchingHistory' = FALSE
    /\ history' = RemoveAt(history, k)
    /\ UNCHANGED <<input, loading, error, isWelcome, selectedFrameworks,
                   justCreatedRef, activeConversationId, triggerRefetch, now,
                   streams, requests, reads, sidebarVars, restVars>>

\* ChatWorkspace.tsx 74-78: fetchConversationDetail rejects
HistoryFailed(k) ==
    /\ k \in DOMAIN history
    /\ error' = "Failed to fetch conversation history."
    /\ isFetchingHistory' = FALSE
    /\ history' = RemoveAt(history, k)
    /\ UNCHANGED <<messages, input, loading, isWelcome, selectedFrameworks,
                   justCreatedRef, activeConversationId, triggerRefetch, now,
                   streams, requests, reads, sidebarVars, restVars>>

(***************************************************************************)
(* The sidebar: the list of conversations and the delete button.           *)
(***************************************************************************)
Listed(id) == \E i \in DOMAIN conversations : conversations[i].id = id

\* Sidebar.tsx 101: click on a listed conversation
ClickConversation(id) == Listed(id) /\ SelectConversation(id)

\* Sidebar.tsx 88: the New Chat button
ClickNewChat == SelectConversation(NULL)

\* GET /api/conversations: the server answers with what it stores
ServerLists(k) ==
    /\ k \in DOMAIN listFetches
    /\ ~listFetches[k].arrived
    /\ listFetches' = [listFetches EXCEPT ![k] = [arrived |-> TRUE, list |-> server]]
    /\ UNCHANGED <<viewVars, now, streams, requests, reads, history,
                   conversations, deletes, server, restVars>>

\* Sidebar.tsx 54-55: fetchConversations resolves, setConversations
ListResolved(k) ==
    /\ k \in DOMAIN listFetches
    /\ listFetches[k].arrived
    /\ conversations' = listFetches[k].list
    /\ listFetches' = RemoveAt(listFetches, k)
    /\ UNCHANGED <<viewVars, now, streams, requests, reads, history, deletes, server, restVars>>

\* Sidebar.tsx 56: fetchConversations rejects, the error is logged
ListFailed(k) ==
    /\ k \in DOMAIN listFetches
    /\ listFetches' = RemoveAt(listFetches, k)
    /\ UNCHANGED <<viewVars, now, streams, requests, reads, history,
                   conversations, deletes, server, restVars>>

\* Sidebar.tsx 63-66: handleDelete up to its await; activeId is the prop of
\* the render the handler was created in
ClickDelete(id) ==
    /\ Listed(id)
    /\ Len(deletes) < MaxDeletes
    /\ deletes' = Append(deletes, [id |-> id, activeId |-> activeConversationId,
                                   state |-> "sent"])
    /\ UNCHANGED <<viewVars, now, streams, requests, reads, history,
                   conversations, listFetches, server, restVars>>

\* DELETE /api/conversations/:id: the server removes the conversation
ServerDeletes(k) ==
    /\ k \in DOMAIN deletes
    /\ deletes[k].state = "sent"
    /\ deletes' = [deletes EXCEPT ![k].state = "deleted"]
    /\ server' = SelectSeq(server, LAMBDA c : c.id # deletes[k].id)
    /\ UNCHANGED <<viewVars, now, streams, requests, reads, history,
                   conversations, listFetches, restVars>>

\* Sidebar.tsx 66-70: deleteConversation resolves
DeleteOk(k) ==
    /\ k \in DOMAIN deletes
    /\ deletes[k].state = "deleted"
    /\ deletes' = [deletes EXCEPT ![k].state = "ok"]
    /\ conversations' = SelectSeq(conversations, LAMBDA c : c.id # deletes[k].id)
    /\ IF deletes[k].activeId = deletes[k].id /\ activeConversationId # NULL
       THEN Navigate(NULL)
       ELSE UNCHANGED <<viewVars, now, streams, requests, reads, history>>
    /\ UNCHANGED <<listFetches, server, restVars>>

\* Sidebar.tsx 71-73 with api.ts 197-198: the response is not ok or the
\* request fails; the error is logged
DeleteFail(k) ==
    /\ k \in DOMAIN deletes
    /\ deletes[k].state \in {"sent", "deleted"}
    /\ deletes' = [deletes EXCEPT ![k].state = "failed"]
    /\ UNCHANGED <<viewVars, now, streams, requests, reads, history,
                   conversations, listFetches, server, restVars>>

(***************************************************************************)
(* Spec: the user submits questions, the transport delivers to each open   *)
(* stream chunks of its choice.                                            *)
(***************************************************************************)
Next ==
    \/ \E t \in Questions : TypeInput(t)
    \/ ClickSend
    \/ PressEnter
    \/ \E s \in DOMAIN streams : IssueFetch(s)
    \/ \E s \in DOMAIN streams : FetchOk(s)
    \/ \E s \in DOMAIN streams : \E m \in FetchErrorMessages : FetchFail(s, m)
    \/ \E s \in DOMAIN streams : Read(s)
    \/ \E s \in DOMAIN streams : ReadDone(s)
    \/ \E s \in DOMAIN streams : \E m \in ErrorMessages : ReadFail(s, m)

Spec == Init /\ [][Next]_vars

(***************************************************************************)
(* SpecScope: the ways to submit (send button, Enter, suggestion card),    *)
(* with the framework chips and blank input; responses carry no bytes.     *)
(***************************************************************************)
NextScope ==
    \/ \E t \in Inputs : TypeInput(t)
    \/ \E fw \in FRAMEWORK_OPTIONS : ToggleFramework(fw)
    \/ ClickSend
    \/ PressEnter
    \/ \E p \in SUGGESTION_CARDS : ClickSuggestion(p)
    \/ \E s \in DOMAIN streams : IssueFetch(s)
    \/ \E s \in DOMAIN streams : FetchOk(s)
    \/ \E s \in DOMAIN streams : \E m \in FetchErrorMessages : FetchFail(s, m)
    \/ \E s \in DOMAIN streams : ReadDone(s)
    \/ \E s \in DOMAIN streams : \E m \in ErrorMessages : ReadFail(s, m)

SpecScope == Init /\ [][NextScope]_vars

(***************************************************************************)
(* SpecBurst: up to MaxBurst submissions by the Enter key, each answered   *)
(* by whole Metadata and ContentToken records and then closed.             *)
(***************************************************************************)
NextBurst ==
    \/ \E t \in Questions : TypeInput(t)
    \/ PressEnterBurst
    \/ \E s \in DOMAIN streams : IssueFetch(s)
    \/ \E s \in DOMAIN streams : FetchOk(s)
    \/ \E s \in DOMAIN streams : ReadBurst(s)
    \/ \E s \in DOMAIN streams : ReadDone(s)

SpecBurst == Init /\ [][NextBurst]_vars

(***************************************************************************)
(* SpecNav: one conversation view with the sidebar: submissions by the     *)
(* Enter key, answered by whole records, and navigation at any moment.     *)
(***************************************************************************)
NavChunks == {Piece("tokenA"), Piece("conversation_id")}

NextNav ==
    \/ \E t \in Questions : TypeInput(t)
    \/ PressEnterNav
    \/ \E s \in DOMAIN streams : IssueFetch(s)
    \/ \E s \in DOMAIN streams : FetchOk(s)
    \/ \E s \in DOMAIN streams : ReadOf(s, NavChunks)
    \/ \E s \in DOMAIN streams : ReadDone(s)
    \/ \E id \in ConversationIds \cup {NULL} : SelectConversation(id)
    \/ \E k \in DOMAIN history : \E data \in Details(history[k]) : HistoryLoaded(k, data)
    \/ \E k \in DOMAIN history : HistoryFailed(k)

\* the sidebar has loaded its list, which shows both conversations
InitNav ==
    InitWith(<<[id |-> "c1"], [id |-> "c2"]>>, <<>>, <<[id |-> "c1"], [id |-> "c2"]>>)

SpecNav == InitNav /\ [][NextNav]_vars

(***************************************************************************)
(* SpecSidebar: the sidebar's list with its fetches and the delete button, *)
(* next to one query in a new chat whose stream names its conversation.    *)
(* The history fetches that the selections start stay outstanding.         *)
(***************************************************************************)
SidebarChunks == {Piece("conversation_id")}

NextSidebar ==
    \/ \E t \in Questions : TypeInput(t)
    \/ PressEnterNav
    \/ \E s \in DOMAIN streams : IssueFetch(s)
    \/ \E s \in DOMAIN streams : FetchOk(s)
    \/ \E s \in DOMAIN streams : ReadOf(s, SidebarChunks)
    \/ \E s \in DOMAIN streams : ReadDone(s)
    \/ \E k \in DOMAIN listFetches : ServerLists(k)
    \/ \E k \in DOMAIN listFetches : ListResolved(k)
    \/ \E k \in DOMAIN listFetches : ListFailed(k)
    \/ \E id \in ConversationIds : ClickConversation(id)
    \/ ClickNewChat
    \/ \E id \in ConversationIds : ClickDelete(id)
    \/ \E k \in DOMAIN deletes : ServerDeletes(k)
    \/ \E k \in DOMAIN deletes : DeleteOk(k)
    \/ \E k \in DOMAIN deletes : DeleteFail(k)

SpecSidebar == Init /\ [][NextSidebar]_vars

(***************************************************************************)
(* SpecDecoder: one submission whose response has arrived; the server has  *)
(* written a whole body and closed it, the transport delivers the body cut *)
(* into chunks at any place, or fails before it has delivered all of it.   *)
(***************************************************************************)
InitDecoder ==
    /\ messages = <<[id |-> NumberToString(ClockStart + 1), role |-> "user",
                     content |-> <<"q">>]>>
    /\ input = <<>>
    /\ loading = TRUE
    /\ isFetchingHistory = FALSE
    /\ error = NULL
    /\ isWelcome = FALSE
    /\ selectedFrameworks = FRAMEWORK_OPTIONS
    /\ justCreatedRef = FALSE
    /\ activeConversationId = NULL
    /\ triggerRefetch = 0
    /\ now = ClockStart + 1
    /\ \E b \in Bodies :
         /\ streams = <<[question         |-> <<"q">>,
                         frameworks       |-> FRAMEWORK_OPTIONS,
                         conversation_id  |-> NULL,
                         userMsgId        |-> NumberToString(ClockStart + 1),
                         assistantMsgId   |-> NumberToString(ClockStart + 2),
                         assistantCreated |-> FALSE,
                         pc               |-> "reading",
                         buffer           |-> <<>>,
                         calls            |-> <<>>,
                         wire             |-> Encode(b),
                         eof              |-> TRUE,
                         received         |-> <<>>,
                         body             |-> b,
                         abandoned        |-> FALSE]>>
         /\ requests = <<RequestBody(streams[1])>>
    /\ reads = <<0>>
    /\ history = <<>>
    /\ conversations = <<>>
    /\ listFetches = <<ListPending>>
    /\ deletes = <<>>
    /\ server = <<[id |-> "c2"]>>
    /\ InitRest

NextDecoder ==
    \/ \E s \in DOMAIN streams : ReadWire(s)
    \/ \E s \in DOMAIN streams : ReadDone(s)
    \/ \E s \in DOMAIN streams : \E m \in ErrorMessages : ReadFail(s, m)

SpecDecoder == InitDecoder /\ [][NextDecoder]_vars

FairDecoder ==
    SpecDecoder /\ \A s \in {1} : WF_vars(ReadDone(s))

(***************************************************************************)
(* SpecTail: as SpecDecoder, for a body that the server closes after a     *)
(* last record which lacks its separator.                                  *)
(***************************************************************************)
\* the last piece: a content record or '[DONE]' with no line break after
\* it, a content record followed by one line break only
TailKinds == {"unterminated", "unterminatedDONE", "halfTerminated"}

\* what precedes the last piece
TailBodies == UNION {[1..n -> {"metadata", "tokenA", "comment"}] : n \in 0..(MaxRecords - 1)}

InitTail ==
    /\ messages = <<[id |-> NumberToString(ClockStart + 1), role |-> "user",
                     content |-> <<"q">>]>>
    /\ input = <<>>
    /\ loading = TRUE
    /\ isFetchingHistory = FALSE
    /\ error = NULL
    /\ isWelcome = FALSE
    /\ selectedFrameworks = FRAMEWORK_OPTIONS
    /\ justCreatedRef = FALSE
    /\ activeConversationId = NULL
    /\ triggerRefetch = 0
    /\ now = ClockStart + 1
    /\ \E b \in TailBodies : \E last \in TailKinds :
         /\ streams = <<[question         |-> <<"q">>,
                         frameworks       |-> FRAMEWORK_OPTIONS,
                         conversation_id  |-> NULL,
                         userMsgId        |-> NumberToString(ClockStart + 1),
                         assistantMsgId   |-> NumberToString(ClockStart + 2),
                         assistantCreated |-> FALSE,
                         pc               |-> "reading",
                         buffer           |-> <<>>,
                         calls            |-> <<>>,
                         wire             |-> Encode(Append(b, last)),
                         eof              |-> TRUE,
                         received         |-> <<>>,
                         body             |-> Append(b, last),
                         abandoned        |-> FALSE]>>
         /\ requests = <<RequestBody(streams[1])>>
    /\ reads = <<0>>
    /\ history = <<>>
    /\ conversations = <<>>
    /\ listFetches = <<ListPending>>
    /\ deletes = <<>>
    /\ server = <<[id |-> "c2"]>>
    /\ InitRest

SpecTail == InitTail /\ [][NextDecoder]_vars


(***************************************************************************)
(* Vocabulary of the properties.                                           *)
(***************************************************************************)
Pending(s)   == streams[s].pc \in {"headers", "fetch", "reading"}
Completed(s) == streams[s].pc = "completed"
Failed(s)    == streams[s].pc = "failed"

\* the callbacks of a sequence that have one of the given names
RECURSIVE Select(_, _)
Select(calls, cbs) ==
    IF calls = <<>> THEN <<>>
    ELSE (IF Head(calls).cb \in cbs THEN <<Head(calls)>> ELSE <<>>)
         \o Select(Tail(calls), cbs)

\* the text of the ContentTokens of a sequence of callbacks, concatenated
RECURSIVE TokenText(_)
TokenText(calls) ==
    IF calls = <<>> THEN <<>>
    ELSE (IF Head(calls).cb = "onToken" THEN Head(calls).arg.text ELSE <<>>)
         \o TokenText(Tail(calls))

\* positions of the assistant message of submission s in the visible list
AssistantAt(s) ==
    {i \in DOMAIN messages : /\ messages[i].role = "assistant"
                             /\ messages[i].id = streams[s].assistantMsgId}

IsPrefix(a, b) == Len(a) <= Len(b) /\ SubSeq(b, 1, Len(a)) = a

(***************************************************************************)
(* C1.  Chunk-boundary independence: however the bytes received so far     *)
(* were cut into chunks, the callbacks invoked so far, the buffer and the  *)
(* decision to stop are those of the same bytes arriving as one chunk.     *)
(***************************************************************************)
C1_ChunkIndependence ==
    \A s \in DOMAIN streams :
        streams[s].pc \in {"reading", "completed", "failed"} =>
            LET one == ProcessChunk(<<>>, streams[s].received) IN
            CASE streams[s].pc = "reading" ->
                     /\ streams[s].calls = one.calls
                     /\ streams[s].buffer = one.buffer
                     /\ ~one.returned
              [] streams[s].pc = "completed" ->
                     streams[s].calls =
                         IF one.returned THEN one.calls ELSE one.calls \o EndOfStreamCalls
              [] streams[s].pc = "failed" ->
                     /\ ~one.returned
                     /\ \E m \in ErrorMessages : streams[s].calls = one.calls \o ErrorCalls(m)

\* a cut inside the double line break of a record, after an earlier record
\* was emitted and with more bytes to come
C1_Witness ==
    \E s \in DOMAIN streams :
        /\ streams[s].pc = "reading"
        /\ streams[s].wire # <<>>
        /\ streams[s].calls # <<>>
        /\ streams[s].buffer # <<>>
        /\ Last(streams[s].buffer) = NL
        /\ StartsWith(streams[s].buffer, DataPrefix)

(***************************************************************************)
(* C2.  A body of valid records with one malformed "data: " record among   *)
(* them yields exactly the events of the valid records, in order, up to    *)
(* the first terminator: nothing for the malformed record, no onError      *)
(* unless the transport fails, and onComplete as the terminal callback.    *)
(***************************************************************************)
ValidKinds == {"metadata", "tokenA", "tokenB", "conversation_id", "DONE", "done"}

EventOf(kind) ==
    CASE kind = "metadata"        -> Call("onMetadata", MetaOf[MetaObj1])
      [] kind = "tokenA"          -> Call("onToken", [text |-> <<"a">>])
      [] kind = "tokenB"          -> Call("onToken", [text |-> <<"b">>])
      [] kind = "conversation_id" -> Call("onConversationId", [id |-> "c1"])

\* the events of a body of records, ended by Done
RECURSIVE Expected(_)
Expected(kinds) ==
    IF kinds = <<>> THEN <<Call("onComplete", NoArg)>>
    ELSE IF Head(kinds) \in {"DONE", "done"} THEN <<Call("onComplete", NoArg)>>
    ELSE IF Head(kinds) = "malformed" THEN Expected(Tail(kinds))
    ELSE <<EventOf(Head(kinds))>> \o Expected(Tail(kinds))

OneMalformed(kinds) ==
    /\ \A i \in DOMAIN kinds : kinds[i] \in ValidKinds \cup {"malformed"}
    /\ Cardinality({i \in DOMAIN kinds : kinds[i] = "malformed"}) = 1

C2_MalformedSkipped ==
    \A s \in DOMAIN streams :
        OneMalformed(streams[s].body) =>
            /\ Completed(s) => streams[s].calls = Expected(streams[s].body)
            /\ streams[s].pc = "reading" =>
                   /\ IsPrefix(streams[s].calls, Expected(streams[s].body))
                   /\ Select(streams[s].calls, {"onError"}) = <<>>
            /\ Failed(s) =>
                   /\ IsPrefix(Front(streams[s].calls), Expected(streams[s].body))
                   /\ Select(Front(streams[s].calls), {"onError"}) = <<>>

\* a token, a malformed record, a token: both tokens and Done were emitted
C2_Witness ==
    \E s \in DOMAIN streams :
        /\ streams[s].body = <<"tokenA", "malformed", "tokenB">>
        /\ Completed(s)
        /\ Len(streams[s].calls) = 3
        /\ TokenText(streams[s].calls) = <<"a", "b">>

(***************************************************************************)
(* C3.  Once Done is observed, the content of the submission's assistant   *)
(* message is the concatenation, in arrival order, of the text of the      *)
(* ContentTokens the stream delivered.                                     *)
(***************************************************************************)
C3_ContentIsTokens ==
    \A s \in DOMAIN streams :
        Completed(s) =>
            /\ \A i \in AssistantAt(s) : messages[i].content = TokenText(streams[s].calls)
            /\ TokenText(streams[s].calls) # <<>> => AssistantAt(s) # {}

C3_Witness ==
    \E s \in DOMAIN streams :
        /\ Completed(s)
        /\ TokenText(streams[s].calls) = <<"a", "b">>
        /\ \E i \in AssistantAt(s) : messages[i].content = <<"a", "b">>

(***************************************************************************)
(* C4.  A submission made while a previous query is not back in Idle       *)
(* (its stream has neither completed nor failed) is a no-op: no user       *)
(* message is added, no assistant id is allocated, no request is prepared. *)
(***************************************************************************)
C4_BusySubmissionIsNoOp ==
    [][(\E s \in DOMAIN streams : Pending(s)) => Len(streams') = Len(streams)]_vars


(***************************************************************************)
(* C5.  When the transport has signalled its end (the body is closed and   *)
(* all its bytes were delivered) and no terminator record was decoded, the *)
(* decoder eventually invokes onComplete and the loading flag is cleared.  *)
(***************************************************************************)
C5_SyntheticDone ==
    \A s \in {1} :
        (streams[s].pc = "reading" /\ streams[s].eof /\ streams[s].wire = <<>>)
        ~> (/\ Completed(s)
            /\ streams[s].calls # <<>>
            /\ Last(streams[s].calls).cb = "onComplete"
            /\ ~loading)

\* a body without terminator that ends inside a separator: Done was produced
C5_Witness ==
    \E s \in DOMAIN streams :
        /\ Completed(s)
        /\ streams[s].body # <<>>
        /\ \A i \in DOMAIN streams[s].body : streams[s].body[i] \notin {"DONE", "done"}
        /\ streams[s].received = Encode(streams[s].body)
        /\ streams[s].buffer # <<>>
        /\ Last(streams[s].calls).cb = "onComplete"
        /\ ~loading

(***************************************************************************)
(* C6.  The visible list holds no assistant message of a submission before *)
(* its first Metadata or ContentToken, exactly one from then on whatever   *)
(* the order of the events, and none at all when the stream ends without   *)
(* either.                                                                 *)
(***************************************************************************)
Materializing(s) == Select(streams[s].calls, {"onMetadata", "onToken"})

C6_MaterializedOnce ==
    \A s \in DOMAIN streams :
        /\ Cardinality(AssistantAt(s)) = IF Materializing(s) = <<>> THEN 0 ELSE 1
        /\ streams[s].assistantCreated <=> Materializing(s) # <<>>
        /\ (Pending(s) /\ Materializing(s) = <<>>) =>
               \A i \in DOMAIN messages : messages[i].id # streams[s].assistantMsgId

C6_Witness ==
    \E s \in DOMAIN streams :
        /\ Len(Materializing(s)) = 2
        /\ Materializing(s)[1].cb = "onToken"
        /\ Materializing(s)[2].cb = "onMetadata"
        /\ Cardinality(AssistantAt(s)) = 1

(***************************************************************************)
(* C7.  The fields at materialization: created by a Metadata, the message  *)
(* has empty content and the metadata's citations, evidence, frameworks    *)
(* and mode flags; created by a ContentToken, it has that token as content *)
(* and no other field, and it has none as long as no Metadata arrives.     *)
(***************************************************************************)
PlainFields == {"id", "role", "content"}

C7_FieldsAtMaterialization ==
    \A s \in DOMAIN streams :
        Materializing(s) # <<>> =>
            /\ AssistantAt(s) # {}
            /\ \A i \in AssistantAt(s) :
                 LET first == Materializing(s)[1] IN
                 /\ (Len(Materializing(s)) = 1 /\ first.cb = "onMetadata") =>
                        /\ messages[i].content = <<>>
                        /\ messages[i].citations = first.arg.citations
                        /\ messages[i].evidence = first.arg.retrieved_chunks
                        /\ messages[i].frameworks_used = first.arg.frameworks_used
                        /\ messages[i].mapping_mode = first.arg.mapping_mode
                        /\ messages[i].incident_mode = first.arg.incident_mode
                 /\ (Len(Materializing(s)) = 1 /\ first.cb = "onToken") =>
                        /\ messages[i].content = first.arg.text
                        /\ DOMAIN messages[i] = PlainFields
                 /\ Select(streams[s].calls, {"onMetadata"}) = <<>> =>
                        DOMAIN messages[i] = PlainFields

\* a stream of two tokens and no Metadata has ended: a plain answer
C7_Witness ==
    \E s \in DOMAIN streams :
        /\ ~Pending(s)
        /\ Len(Materializing(s)) = 2
        /\ Select(streams[s].calls, {"onMetadata"}) = <<>>
        /\ \E i \in AssistantAt(s) : DOMAIN messages[i] = PlainFields

(***************************************************************************)
(* C8.  A Metadata applied to a materialized assistant message leaves its  *)
(* content, id and role as they were and replaces its citations, evidence, *)
(* frameworks-used and mode fields; every other message of the list is     *)
(* unchanged.                                                              *)
(***************************************************************************)
LateMetadata(s) ==
    /\ streams[s].assistantCreated
    /\ Len(streams'[s].calls) = Len(streams[s].calls) + 1
    /\ Last(streams'[s].calls).cb = "onMetadata"

C8_LateMetadataFrame ==
    [][\A s \in DOMAIN streams :
         LateMetadata(s) =>
             /\ Len(messages') = Len(messages)
             /\ \A i \in DOMAIN messages :
                  IF i \in AssistantAt(s)
                  THEN /\ messages'[i].content = messages[i].content
                       /\ messages'[i].id = messages[i].id
                       /\ messages'[i].role = messages[i].role
                       /\ messages'[i].citations = Last(streams'[s].calls).arg.citations
                       /\ messages'[i].evidence = Last(streams'[s].calls).arg.retrieved_chunks
                  ELSE messages'[i] = messages[i]]_vars

(***************************************************************************)
(* C9.  A transport failure after one or more ContentTokens rolls nothing  *)
(* back: the message list is as before, the assistant message holds the    *)
(* concatenation of the tokens delivered, the user message is there, the   *)
(* error is set and the reducer accepts a submission again.                *)
(***************************************************************************)
FailsMidStream(s) ==
    /\ streams[s].pc = "reading"
    /\ streams'[s].pc = "failed"
    /\ TokenText(streams[s].calls) # <<>>

C9_FailureKeepsPartial ==
    [][\A s \in DOMAIN streams :
         FailsMidStream(s) =>
             /\ messages' = messages
             /\ AssistantAt(s) # {}
             /\ \A i \in AssistantAt(s) :
                  messages'[i].content = TokenText(streams[s].calls)
             /\ \E i \in DOMAIN messages' :
                  /\ messages'[i].role = "user"
                  /\ messages'[i].id = streams[s].userMsgId
             /\ error' # NULL
             /\ ~loading'
             /\ ~isFetchingHistory']_vars

C9_Witness ==
    \E s \in DOMAIN streams :
        /\ Failed(s)
        /\ TokenText(streams[s].calls) = <<"a", "b">>
        /\ \E i \in AssistantAt(s) : messages[i].content = <<"a", "b">>
        /\ error # NULL
        /\ ~loading

(***************************************************************************)
(* C10.  While no framework is selected no submission is accepted: the     *)
(* message list stays as it is and submitQueryStream is not called.        *)
(***************************************************************************)
C10_EmptyScopeRejected ==
    [][selectedFrameworks = {} =>
           /\ messages' = messages
           /\ Len(streams') = Len(streams)]_vars

(***************************************************************************)
(* C11.  Once the view a stream was opened in has been navigated away      *)
(* from, no callback of that stream changes the message list, the loading  *)
(* flag, the error or the active conversation id.                          *)
(***************************************************************************)
C11_NoUpdatesAfterTeardown ==
    [][\A s \in DOMAIN streams :
         (streams[s].abandoned /\ streams'[s].calls # streams[s].calls) =>
             /\ messages' = messages
             /\ loading' = loading
             /\ error' = error
             /\ activeConversationId' = activeConversationId]_vars

(***************************************************************************)
(* C12.  At most one call of submitQueryStream that has invoked neither    *)
(* onComplete nor onError is open at any time.                             *)
(***************************************************************************)
C12_OneOpenStream ==
    Cardinality({s \in DOMAIN streams : Pending(s)}) <= 1

(***************************************************************************)
(* C13.  When a record's payload is the terminator literal '[DONE]' the    *)
(* decoder invokes onComplete and processes no further input: the records  *)
(* that follow it, in the same chunk or in later chunks, produce no        *)
(* callback.                                                               *)
(***************************************************************************)
EventKinds == {"metadata", "tokenA", "tokenB", "conversation_id"}

\* the events of the records of a body that carry one
RECURSIVE Events(_)
Events(kinds) ==
    IF kinds = <<>> THEN <<>>
    ELSE (IF Head(kinds) \in EventKinds THEN <<EventOf(Head(kinds))>> ELSE <<>>)
         \o Events(Tail(kinds))

\* position i of the body holds the first terminator, a '[DONE]' record,
\* and whole records precede it
FirstTerminatorLiteral(s, i) ==
    /\ i \in DOMAIN streams[s].body
    /\ streams[s].body[i] = "DONE"
    /\ \A j \in 1..(i - 1) :
           streams[s].body[j] \in EventKinds \cup {"malformed", "comment"}

C13_TerminatorStops ==
    \A s \in DOMAIN streams : \A i \in DOMAIN streams[s].body :
        FirstTerminatorLiteral(s, i) =>
            LET before == Events(SubSeq(streams[s].body, 1, i - 1))
                upTo   == Len(Encode(SubSeq(streams[s].body, 1, i)))
            IN  /\ IsPrefix(Select(streams[s].calls,
                                   {"onMetadata", "onToken", "onConversationId"}),
                            before)
                /\ Len(streams[s].received) >= upTo =>
                       /\ Completed(s)
                       /\ streams[s].calls = before \o <<Call("onComplete", NoArg)>>

\* the chunk that held '[DONE]' also held a token record after it, and more
\* bytes were never read
C13_Witness ==
    \E s \in DOMAIN streams : \E i \in DOMAIN streams[s].body :
        /\ FirstTerminatorLiteral(s, i)
        /\ i + 2 = Len(streams[s].body)
        /\ streams[s].body[i + 1] = "tokenA"
        /\ streams[s].body[i + 2] = "tokenB"
        /\ Completed(s)
        /\ Len(streams[s].received) = Len(Encode(SubSeq(streams[s].body, 1, i + 1)))
        /\ streams[s].wire # <<>>

(***************************************************************************)
(* C14.  A call of submitQueryStream invokes no terminal callback while it *)
(* runs and exactly one when it has ended: onComplete or onError, as its   *)
(* last callback, never both and never twice.                              *)
(***************************************************************************)
Terminals(s) == Select(streams[s].calls, {"onComplete", "onError"})

C14_OneTerminalCallback ==
    \A s \in DOMAIN streams :
        /\ Pending(s) => Terminals(s) = <<>>
        /\ ~Pending(s) =>
               /\ Len(Terminals(s)) = 1
               /\ Last(streams[s].calls) = Terminals(s)[1]
               /\ Completed(s) <=> Terminals(s)[1].cb = "onComplete"
               /\ Failed(s) <=> Terminals(s)[1].cb = "onError"

\* a 'done' record and '[DONE]' after it arrived in the chunk that ended
\* the body: one onComplete
C14_Witness ==
    \E s \in DOMAIN streams :
        /\ streams[s].body = <<"tokenA", "done", "DONE">>
        /\ streams[s].received = Encode(streams[s].body)
        /\ Completed(s)
        /\ Len(streams[s].calls) = 2

(***************************************************************************)
(* C15.  The loading flag is false after a stream's onComplete, and it is  *)
(* true from the accepted submission until that stream's onComplete or     *)
(* onError.                                                                *)
(***************************************************************************)
C15_IdleOnlyAtDone ==
    [][\A s \in DOMAIN streams :
         /\ (Pending(s) /\ streams'[s].pc = "completed") => ~loading'
         /\ (Pending(s) /\ streams'[s].pc \in {"headers", "fetch", "reading"}) => loading']_vars

(***************************************************************************)
(* C16.  The content of the assistant message of an open stream only       *)
(* grows: each step leaves it as it was or extends it by exactly the text  *)
(* of the ContentTokens the step delivered, repeated tokens included.      *)
(***************************************************************************)
\* the callbacks of stream s that the step adds
NewCalls(s) ==
    SubSeq(streams'[s].calls, Len(streams[s].calls) + 1, Len(streams'[s].calls))

C16_ContentAppendOnly ==
    [][\A s \in DOMAIN streams : \A i \in AssistantAt(s) :
         Pending(s) =>
             /\ i \in DOMAIN messages'
             /\ messages'[i].id = messages[i].id
             /\ messages'[i].role = messages[i].role
             /\ messages'[i].content = messages[i].content \o TokenText(NewCalls(s))]_vars

\* the same token twice in a row: both are in the content
C16_Witness ==
    \E s \in DOMAIN streams : \E i \in AssistantAt(s) :
        /\ Pending(s)
        /\ TokenText(streams[s].calls) = <<"a", "a">>
        /\ messages[i].content = <<"a", "a">>

(***************************************************************************)
(* C17.  Every ConversationId event is forwarded once to onNewConversation *)
(* with the id received, wherever in the stream it arrives, and a step     *)
(* that delivers only that event leaves the message list as it was and     *)
(* starts no fetch of the history.                                         *)
(***************************************************************************)
\* the ConversationId events the streams have delivered so far
RECURSIVE Forwarded(_)
Forwarded(strs) ==
    IF strs = <<>> THEN 0
    ELSE Len(Select(Head(strs).calls, {"onConversationId"})) + Forwarded(Tail(strs))

C17_ConversationIdForwarded ==
    [][/\ triggerRefetch' = Forwarded(streams')
       /\ \A s \in DOMAIN streams :
            (Len(NewCalls(s)) = 1 /\ NewCalls(s)[1].cb = "onConversationId") =>
                /\ activeConversationId' = NewCalls(s)[1].arg.id
                /\ messages' = messages
                /\ isFetchingHistory' = isFetchingHistory
                /\ history' = history
                /\ loading' = loading
                /\ error' = error]_vars

\* the event arrived between two tokens
C17_Witness ==
    \E s \in DOMAIN streams : \E i \in AssistantAt(s) :
        /\ Len(streams[s].calls) = 3
        /\ streams[s].calls[1].cb = "onToken"
        /\ streams[s].calls[2].cb = "onConversationId"
        /\ streams[s].calls[3].cb = "onToken"
        /\ activeConversationId = streams[s].calls[2].arg.id
        /\ triggerRefetch = 1
        /\ messages[i].content = TokenText(streams[s].calls)
        /\ Len(messages) = 2

(***************************************************************************)
(* C18.  In one thread, the request of every turn after the first carries  *)
(* as conversation_id the id the server has assigned to the thread.        *)
(***************************************************************************)
\* the ids the server has assigned in the stream of submission s
AssignedIn(s) ==
    {c.arg.id : c \in {streams[s].calls[i] : i \in
                          {j \in DOMAIN streams[s].calls :
                               streams[s].calls[j].cb = "onConversationId"}}}

C18_LaterTurnsCarryId ==
    \A s \in DOMAIN streams : \A first \in DOMAIN streams :
        (first < s /\ AssignedIn(first) # {}) =>
            /\ "conversation_id" \in DOMAIN RequestBody(streams[s])
            /\ RequestBody(streams[s]).conversation_id \in AssignedIn(first)

(***************************************************************************)
(* C19.  A response that is not ok, or a network failure before the body   *)
(* is read, invokes onError once and no other callback: no assistant       *)
(* message is added, the user message stays, the error is set and loading  *)
(* is false.                                                               *)
(***************************************************************************)
FailsBeforeStreaming(s) ==
    /\ streams[s].pc = "fetch"
    /\ streams'[s].pc = "failed"

C19_FailureBeforeStreaming ==
    [][\A s \in DOMAIN streams :
         FailsBeforeStreaming(s) =>
             /\ Len(streams'[s].calls) = 1
             /\ streams'[s].calls[1].cb = "onError"
             /\ messages' = messages
             /\ \A i \in DOMAIN messages' :
                    ~(messages'[i].role = "assistant"
                      /\ messages'[i].id = streams[s].assistantMsgId)
             /\ \E i \in DOMAIN messages' :
                    /\ messages'[i].role = "user"
                    /\ messages'[i].id = streams[s].userMsgId
             /\ error' = streams'[s].calls[1].arg.message
             /\ error' # NULL
             /\ ~loading']_vars

\* the response to the only submission was not ok
C19_Witness ==
    \E s \in DOMAIN streams :
        /\ Failed(s)
        /\ streams[s].calls = ErrorCalls("API error: Internal Server Error")
        /\ error = "API error: Internal Server Error"
        /\ ~loading
        /\ Len(messages) = 1
        /\ messages[1].role = "user"

(***************************************************************************)
(* C20.  No automatic retry: the requests sent are one for each accepted   *)
(* submission whose call has reached its fetch, whatever became of it.     *)
(***************************************************************************)
\* the submissions whose POST /api/query has been issued
Issued == {s \in DOMAIN streams : streams[s].pc # "headers"}

C20_NoRetry ==
    /\ Len(requests) = Cardinality(Issued)
    /\ Len(requests) <= Len(streams)
    /\ \A k \in DOMAIN requests : \E s \in Issued : requests[k] = RequestBody(streams[s])

\* a request that was refused, then a new submission that failed mid-stream:
\* two requests
C20_Witness ==
    /\ Len(streams) = 2
    /\ streams[1].calls = ErrorCalls("API error: Internal Server Error")
    /\ Failed(2)
    /\ TokenText(streams[2].calls) # <<>>
    /\ Len(requests) = 2

(***************************************************************************)
(* C21.  A segment is interpreted exactly when it begins with the prefix   *)
(* 'data: ', its payload being what follows the prefix; a segment that     *)
(* does not (a blank keep-alive line, a comment line, 'data:' without the  *)
(* space) emits nothing and leaves the decoding of the later records as it *)
(* would be without it.                                                    *)
(***************************************************************************)
\* pieces of a body that are whole segments not beginning with the prefix
NotRecords == {"comment", "blank", "nospace"}

WithoutNotRecords(kinds) == SelectSeq(kinds, LAMBDA k : k \notin NotRecords)

C21_PrefixDecides ==
    \A s \in DOMAIN streams :
        (\A i \in DOMAIN streams[s].body : streams[s].body[i] \in ValidKinds \cup NotRecords) =>
            /\ Completed(s) =>
                   streams[s].calls = Expected(WithoutNotRecords(streams[s].body))
            /\ streams[s].pc = "reading" =>
                   IsPrefix(streams[s].calls, Expected(WithoutNotRecords(streams[s].body)))
            /\ Failed(s) =>
                   IsPrefix(Front(streams[s].calls), Expected(WithoutNotRecords(streams[s].body)))

\* a comment line, then a record without the space, then a token record:
\* only the token and Done were emitted
C21_Witness ==
    \E s \in DOMAIN streams :
        /\ streams[s].body = <<"comment", "nospace", "tokenA">>
        /\ Completed(s)
        /\ streams[s].calls = <<Call("onToken", [text |-> <<"a">>]), Call("onComplete", NoArg)>>

(***************************************************************************)
(* C22.  Each well-formed record is routed by its type to one callback     *)
(* with its payload (metadata, content, conversation_id) or to onComplete  *)
(* and the end of decoding (done); a record of any other type invokes      *)
(* nothing; at every moment the callbacks invoked so far are, one for one  *)
(* and in the order of the records in the byte stream, those of the        *)
(* records decoded so far.                                                 *)
(***************************************************************************)
\* the types of well-formed records: the four that are routed, and another
WellFormedKinds == ValidKinds \cup {"ping"}

WithoutOtherTypes(kinds) == SelectSeq(kinds, LAMBDA k : k # "ping")

C22_RoutedInOrder ==
    \A s \in DOMAIN streams :
        (\A i \in DOMAIN streams[s].body : streams[s].body[i] \in WellFormedKinds) =>
            /\ Completed(s) =>
                   streams[s].calls = Expected(WithoutOtherTypes(streams[s].body))
            /\ streams[s].pc = "reading" =>
                   /\ IsPrefix(streams[s].calls, Expected(WithoutOtherTypes(streams[s].body)))
                   /\ Select(streams[s].calls, {"onComplete"}) = <<>>
            /\ Failed(s) =>
                   IsPrefix(Front(streams[s].calls), Expected(WithoutOtherTypes(streams[s].body)))

\* a conversation id, a record of another type, a token, all delivered and
\* the first two decoded: one callback so far, the token's is the next
C22_Witness ==
    \E s \in DOMAIN streams :
        /\ streams[s].body = <<"conversation_id", "ping", "tokenB">>
        /\ streams[s].pc = "reading"
        /\ streams[s].calls = <<Call("onConversationId", [id |-> "c1"])>>
        /\ streams[s].buffer = DataPrefix \o PayloadOf("tokenB") \o <<NL>>
        /\ activeConversationId = "c1"

(***************************************************************************)
(* C23.  After the active conversation was switched while a stream was     *)
(* open, the assistant message of that stream is not in the message list   *)
(* displayed for another conversation, and the list displayed for an       *)
(* active conversation id holds that conversation's messages only.         *)
(***************************************************************************)
\* the conversation a submission belongs to: the one the server named in
\* its stream, else the one it was submitted in
ConversationOf(s) ==
    IF Select(streams[s].calls, {"onConversationId"}) # <<>>
    THEN Last(Select(streams[s].calls, {"onConversationId"})).arg.id
    ELSE streams[s].conversation_id

\* ChatWorkspace.tsx 204-236: the message list is what is rendered
Displayed == ~isFetchingHistory /\ ~isWelcome

BelongsTo(msg, id) ==
    \/ \E i \in DOMAIN StoredMessages(id) : msg = StoredMessages(id)[i]
    \/ \E s \in DOMAIN streams :
           /\ ConversationOf(s) = id
           /\ msg.id \in {streams[s].userMsgId, streams[s].assistantMsgId}

C23_NoCrossConversation ==
    /\ \A s \in DOMAIN streams :
           (streams[s].abandoned /\ Displayed /\ ConversationOf(s) # activeConversationId)
               => AssistantAt(s) = {}
    /\ ((\E s \in DOMAIN streams : streams[s].abandoned)
           /\ Displayed /\ activeConversationId # NULL) =>
           \A i \in DOMAIN messages : BelongsTo(messages[i], activeConversationId)

(***************************************************************************)
(* C24.  History fetches do not race: when every history fetch that was    *)
(* started has succeeded (none is outstanding, none has failed) and no     *)
(* query was submitted, the list displayed for the active conversation is  *)
(* the history of that conversation, in whatever order the responses       *)
(* arrived.                                                                *)
(***************************************************************************)
C24_LastSelectionWins ==
    (/\ history = <<>>
     /\ streams = <<>>
     /\ error = NULL
     /\ activeConversationId # NULL
     /\ messages # <<>>)
        => messages = StoredMessages(activeConversationId)

(***************************************************************************)
(* C25.  isFetchingHistory is true in every state in which a history fetch *)
(* for the active conversation is outstanding (so handleSend returns       *)
(* without effect until that history was loaded or has failed).            *)
(***************************************************************************)
\* a fetchConversationDetail of the active conversation has not resolved
FetchOutstanding == \E k \in DOMAIN history : history[k] = activeConversationId

C25_FetchingWhileOutstanding == FetchOutstanding => isFetchingHistory

(***************************************************************************)
(* C26.  The skip-fetch flag justCreatedRef is consumed by the active-id   *)
(* change of the ConversationId event that set it: between two steps (no   *)
(* such change is pending then, the effect runs within the step of the     *)
(* event) the flag is false, so a later selection of a conversation in the *)
(* sidebar fetches its history.                                            *)
(***************************************************************************)
C26_SkipFlagConsumed == ~justCreatedRef

(***************************************************************************)
(* C27.  A record is emitted only once the double line break has followed  *)
(* it: when the transport ends while the buffer holds a last record that   *)
(* lacks its separator (a whole content record, '[DONE]', a record with    *)
(* one line break), that remainder produces no callback and the only       *)
(* callback after those of the terminated records is the synthetic Done.   *)
(***************************************************************************)
C27_RemainderNotEmitted ==
    \A s \in DOMAIN streams :
        Last(streams[s].body) \in TailKinds =>
            /\ streams[s].pc = "reading" =>
                   IsPrefix(streams[s].calls, Events(Front(streams[s].body)))
            /\ Completed(s) =>
                   /\ streams[s].calls =
                          Events(Front(streams[s].body)) \o <<Call("onComplete", NoArg)>>
                   /\ streams[s].buffer = Piece(Last(streams[s].body))
                   /\ \A i \in AssistantAt(s) :
                          messages[i].content = TokenText(Events(Front(streams[s].body)))
                   /\ ~loading

\* a token record, then '[DONE]' without line break, and the transport ends
C27_Witness ==
    \E s \in DOMAIN streams :
        /\ streams[s].body = <<"tokenA", "unterminatedDONE">>
        /\ Completed(s)
        /\ streams[s].eof
        /\ streams[s].buffer = DataPrefix \o DoneLiteral
        /\ streams[s].calls = <<Call("onToken", [text |-> <<"a">>]), Call("onComplete", NoArg)>>

(***************************************************************************)
(* C28.  The events of a stream modify only that stream's own assistant    *)
(* message: no step changes a user message of the list, nor the assistant  *)
(* message of a submission that has completed.                             *)
(***************************************************************************)
C28_OthersUntouched ==
    [][/\ \A i \in DOMAIN messages :
            messages[i].role = "user" =>
                (i \in DOMAIN messages' /\ messages'[i] = messages[i])
       /\ \A s \in DOMAIN streams : Completed(s) =>
            \A i \in AssistantAt(s) :
                (i \in DOMAIN messages' /\ messages'[i] = messages[i])]_vars

(***************************************************************************)
(* C29.  Message ids are unique within the visible message list.          *)
(***************************************************************************)
C29_UniqueIds ==
    \A i, j \in DOMAIN messages : messages[i].id = messages[j].id => i = j

(***************************************************************************)
(* C30.  The step in which deleteConversation(X) succeeds leaves X absent  *)
(* from the sidebar's list; from then on X stays absent as long as the     *)
(* server does not store it, also when a fetchConversations call was in    *)
(* flight when the delete was issued; the step in which the delete fails   *)
(* changes neither the list nor the active conversation id.                *)
(***************************************************************************)
Stores(list, id) == \E i \in DOMAIN list : list[i].id = id

C30_DeletedStaysAbsent ==
    [][\A k \in DOMAIN deletes :
         /\ (deletes[k].state # "ok" /\ deletes'[k].state = "ok") =>
                ~Stores(conversations', deletes[k].id)
         /\ (/\ deletes[k].state = "ok"
             /\ ~Stores(conversations, deletes[k].id)
             /\ ~Stores(server', deletes[k].id)) =>
                ~Stores(conversations', deletes[k].id)
         /\ (deletes[k].state # "failed" /\ deletes'[k].state = "failed") =>
                /\ conversations' = conversations
                /\ activeConversationId' = activeConversationId]_vars

(***************************************************************************)
(* C31.  When the delete of conversation X completes with success, the     *)
(* active conversation id is not X afterwards: if X is active at that      *)
(* moment, also when it was selected while the request was in flight, the  *)
(* selection is reset to null.                                             *)
(***************************************************************************)
C31_DeletedNotActive ==
    [][\A k \in DOMAIN deletes :
         (deletes[k].state # "ok" /\ deletes'[k].state = "ok") =>
             activeConversationId' # deletes[k].id]_vars

(***************************************************************************)
(* C32.  The decoder keeps no state across calls: the callbacks a call of  *)
(* submitQueryStream has invoked and the buffer it holds depend only on    *)
(* the bytes that call has received; with two calls interleaved, each has  *)
(* invoked what it would have invoked alone, and two calls that received   *)
(* the same bytes have invoked the same callbacks.                         *)
(***************************************************************************)
\* what a call that runs alone has done after the given bytes
Alone(bytes) == ProcessChunk(<<>>, bytes)

\* the callbacks of a call before its terminal onError
Decoded(s) == IF Failed(s) THEN Front(streams[s].calls) ELSE streams[s].calls

C32_NoCrossCallState ==
    /\ \A s \in DOMAIN streams :
           /\ streams[s].pc \in {"headers", "fetch"} => streams[s].calls = <<>>
           /\ streams[s].pc = "reading" =>
                  /\ streams[s].calls = Alone(streams[s].received).calls
                  /\ streams[s].buffer = Alone(streams[s].received).buffer
           /\ Completed(s) =>
                  streams[s].calls =
                      IF Alone(streams[s].received).returned
                      THEN Alone(streams[s].received).calls
                      ELSE Alone(streams[s].received).calls \o EndOfStreamCalls
           /\ Failed(s) => Decoded(s) = Alone(streams[s].received).calls
    /\ \A s1, s2 \in DOMAIN streams :
           streams[s1].received = streams[s2].received =>
               /\ Decoded(s1) = Decoded(s2) \/ Completed(s1) # Completed(s2)
               /\ streams[s1].buffer = streams[s2].buffer

\* two calls open at once: the first holds a record without its separator,
\* the second has then received the separator alone and has invoked nothing
C32_Witness ==
    /\ Len(streams) = 2
    /\ streams[1].pc = "reading"
    /\ streams[2].pc = "reading"
    /\ streams[1].buffer = Piece("unterminated")
    /\ streams[2].received = Separator
    /\ streams[2].calls = <<>>


(***************************************************************************)
(* The credential of the requests, api.ts 40-44 and the first statement of *)
(* each exported function.  A call is a record: the function, its position *)
(* ("getSession": awaiting supabase.auth.getSession(); "fetch": the        *)
(* request is issued) and the headers of its request.                      *)
(***************************************************************************)
MaxApiCalls == 3

Tokens == {"t1", "t2"}

ApiFunctions == {"submitQuery", "generateReport", "submitQueryStream",
                 "fetchConversations", "fetchConversationDetail",
                 "deleteConversation"}

\* the functions whose headers start with 'Content-Type': 'application/json'
JsonFunctions == {"submitQuery", "generateReport", "submitQueryStream"}

NoHeaders == [h \in {} |-> h]

\* the token of module load time, whatever the session it is asked about
GetAuthHeadersCached(sess) ==
    [Authorization |-> <<"Bearer ", "t1">>]

\* api.ts 40-44: token ? { 'Authorization': `Bearer ${token}` } : {}
GetAuthHeaders(sess) ==
    IF sess # NULL THEN [Authorization |-> <<"Bearer ", sess>>] ELSE NoHeaders

\* { 'Content-Type': 'application/json', ...(await getAuthHeaders()) }, or
\* the result of getAuthHeaders() alone
HeadersOf(fn, auth) ==
    IF fn \in JsonFunctions
      THEN auth @@ [ContentType |-> "application/json"]
      ELSE auth

\* a function of api.ts is called: it first awaits getAuthHeaders()
ApiCall(fn) ==
    /\ Len(apiCalls) < MaxApiCalls
    /\ apiCalls' = Append(apiCalls, [fn |-> fn, pc |-> "getSession",
                                     headers |-> NoHeaders])
    /\ UNCHANGED <<notApiVars, session>>

\* getSession() resolves with the session of this moment, and the function
\* goes on to its fetch with the headers built from it
SessionResolved(k) ==
    /\ apiCalls[k].pc = "getSession"
    /\ apiCalls' = [apiCalls EXCEPT ![k].pc = "fetch",
                       ![k].headers = HeadersOf(apiCalls[k].fn, GetAuthHeaders(session))]
    /\ UNCHANGED <<notApiVars, session>>

\* supabase refreshes the token, signs the user out or in again
\* (App.tsx 20-24 observes the same change)
AuthStateChange(sess) ==
    /\ sess # session
    /\ session' = sess
    /\ UNCHANGED <<notApiVars, apiCalls>>

NextAuth ==
    \/ \E fn \in ApiFunctions : ApiCall(fn)
    \/ \E k \in DOMAIN apiCalls : SessionResolved(k)
    \/ \E sess \in Tokens \cup {NULL} : AuthStateChange(sess)

SpecAuth == Init /\ [][NextAuth]_vars

\* the bearer token a request carries, NULL when it carries none
Bearer(headers) ==
    IF "Authorization" \in DOMAIN headers THEN headers.Authorization[2] ELSE NULL

\* C33: every request is preceded by its own session lookup and carries the
\* bearer token that this lookup returned: a call has issued no request while
\* its lookup is outstanding, and the step that issues the request of a call
\* gives it the token of the session as it is at that step (none when there
\* is no session), whatever the earlier requests carried.
C33_OwnLookupToken ==
    /\ [](\A k \in DOMAIN apiCalls :
            apiCalls[k].pc = "getSession" => apiCalls[k].headers = NoHeaders)
    /\ [][\A k \in DOMAIN apiCalls :
            (apiCalls[k].pc = "getSession" /\ apiCalls'[k].pc = "fetch") =>
                Bearer(apiCalls'[k].headers) = session]_vars

\* two requests with a token refresh between them: the second carries the
\* new token
C33_Witness ==
    /\ Len(apiCalls) >= 2
    /\ apiCalls[1].pc = "fetch" /\ Bearer(apiCalls[1].headers) = "t1"
    /\ apiCalls[2].pc = "fetch" /\ Bearer(apiCalls[2].headers) = "t2"
    /\ session = "t2"

(***************************************************************************)
(* The report modal: ReportModal.tsx and its mount in ChatWorkspace.tsx    *)
(* (36, 192-199, 329-333).  The component is always mounted; while isOpen  *)
(* is false it renders nothing (21) and keeps its state.  A generateReport *)
(* call is a record: the report type sent, its position ("sent", "ok",     *)
(* "failed") and the markdown of its response.                             *)
(***************************************************************************)
MaxReports == 2

ReportTypes == {"summary", "mapping", "incident"}

Markdowns == {"# Report", "# Other report"}

\* ChatWorkspace.tsx 194: the Generate Report button of the header
OpenReport ==
    /\ ~isReportModalOpen
    /\ isReportModalOpen' = TRUE
    /\ UNCHANGED <<notReportVars, modalState, reportType, reportContent, reportCalls>>

\* ReportModal.tsx 24-28, with onClose of ChatWorkspace.tsx 331; the close
\* button of the header is rendered in every modal state (75)
HandleClose ==
    /\ isReportModalOpen
    /\ modalState' = "selecting"
    /\ reportContent' = ""
    /\ isReportModalOpen' = FALSE
    /\ UNCHANGED <<notReportVars, reportType, reportCalls>>

\* ReportModal.tsx 92: the select of the 'selecting' form
SetReportType(t) ==
    /\ isReportModalOpen
    /\ modalState = "selecting"
    /\ t # reportType
    /\ reportType' = t
    /\ UNCHANGED <<notReportVars, isReportModalOpen, modalState, reportContent,
                   reportCalls>>

\* ReportModal.tsx 30-34: handleGenerate up to its await; the button that
\* calls it is rendered in the 'selecting' form only (81, 105)
HandleGenerate ==
    /\ isReportModalOpen
    /\ modalState = "selecting"
    /\ IF messages = <<>>
         THEN UNCHANGED <<modalState, reportCalls>>
         ELSE /\ Len(reportCalls) < MaxReports
              /\ modalState' = "generating"
              /\ reportCalls' = Append(reportCalls,
                                   [reportType |-> reportType, state |-> "sent",
                                    markdown |-> ""])
    /\ UNCHANGED <<notReportVars, isReportModalOpen, reportType, reportContent>>

\* ReportModal.tsx 35-37: generateReport resolves with the markdown
ReportOk(k, markdown) ==
    /\ reportCalls[k].state = "sent"
    /\ reportCalls' = [reportCalls EXCEPT ![k].state = "ok",
                                          ![k].markdown = markdown]
    /\ reportContent' = markdown
    /\ modalState' = "preview"
    /\ UNCHANGED <<notReportVars, isReportModalOpen, reportType>>

\* ReportModal.tsx 38-42: generateReport rejects (api.ts 85-87, or fetch)
ReportFail(k) ==
    /\ reportCalls[k].state = "sent"
    /\ reportCalls' = [reportCalls EXCEPT ![k].state = "failed"]
    /\ modalState' = "selecting"
    /\ UNCHANGED <<notReportVars, isReportModalOpen, reportType, reportContent>>

(***************************************************************************)
(* SpecReport: the report modal next to one submitted query, which gives   *)
(* the modal a message list that is not empty.                             *)
(***************************************************************************)
NextReport ==
    \/ \E t \in Questions : TypeInput(t)
    \/ PressEnterNav
    \/ OpenReport
    \/ HandleClose
    \/ \E t \in ReportTypes : SetReportType(t)
    \/ HandleGenerate
    \/ \E k \in DOMAIN reportCalls : \E markdown \in Markdowns : ReportOk(k, markdown)
    \/ \E k \in DOMAIN reportCalls : ReportFail(k)

SpecReport == Init /\ [][NextReport]_vars

\* the generateReport calls that have not settled
Outstanding == {k \in DOMAIN reportCalls : reportCalls[k].state = "sent"}

\* C34: with an empty message list nothing of the modal moves to
\* 'generating' and no request is sent; 'generating' is entered from
\* 'selecting' only, with one more request; a request that succeeds leaves
\* 'preview' with its markdown, one that fails leaves 'selecting' and the
\* report content as it was; and at most one report request is outstanding.
C34_ReportTransitions ==
    /\ [][/\ messages = <<>> =>
                (reportCalls' = reportCalls /\ modalState' # "generating")
          /\ (modalState # "generating" /\ modalState' = "generating") =>
                (/\ modalState = "selecting"
                 /\ Len(reportCalls') = Len(reportCalls) + 1)
          /\ \A k \in DOMAIN reportCalls :
                /\ (reportCalls[k].state = "sent" /\ reportCalls'[k].state = "ok") =>
                      (/\ modalState' = "preview"
                       /\ reportContent' = reportCalls'[k].markdown)
                /\ (reportCalls[k].state = "sent" /\ reportCalls'[k].state = "failed") =>
                      (/\ modalState' = "selecting"
                       /\ reportContent' = reportContent)]_vars
    /\ [](Cardinality(Outstanding) <= 1)

\* C35: whenever the modal is opened, its state is 'selecting' and its
\* report content is empty.
C35_OpensReset ==
    [][(~isReportModalOpen /\ isReportModalOpen') =>
          (modalState' = "selecting" /\ reportContent' = "")]_vars

(***************************************************************************)
(* The date groups of the sidebar, Sidebar.tsx 12-48.  A date string is a  *)
(* record: whether the field holds a string that new Date() parses, and    *)
(* the day it names (a time of day changes no comparison with a midnight). *)
(* An object with string keys is the sequence of its entries in insertion  *)
(* order, which is the order of Object.entries (94).                       *)
(***************************************************************************)
MaxConvs == 3

Stamp(day) == [present |-> TRUE, day |-> day]
NoStamp    == [present |-> FALSE, day |-> 0]

\* Sidebar.tsx 12-28; every comparison with an Invalid Date is false
GetDateGroup(date, day) ==
    IF date.present /\ date.day >= day THEN "Today"
    ELSE IF date.present /\ date.day >= day - 1 THEN "Yesterday"
    ELSE IF date.present /\ date.day >= day - 7 THEN "Previous 7 Days"
    ELSE IF date.present /\ date.day >= day - 30 THEN "Previous 30 Days"
    ELSE "Older"

\* conv.updated_at || conv.created_at
UpdatedOrCreated(conv) ==
    IF conv.updated_at.present THEN conv.updated_at ELSE conv.created_at

\* Sidebar.tsx 36-37: if (!groups[group]) groups[group] = []; push
Push(groups, label, conv) ==
    IF \E g \in DOMAIN groups : groups[g].label = label
      THEN [g \in DOMAIN groups |->
              IF groups[g].label = label
                THEN [groups[g] EXCEPT !.items = Append(@, conv)]
                ELSE groups[g]]
      ELSE Append(groups, [label |-> label, items |-> <<conv>>])

\* Sidebar.tsx 34-38
RECURSIVE GroupLoop(_, _, _)
GroupLoop(convs, groups, day) ==
    IF convs = <<>> THEN groups
    ELSE GroupLoop(Tail(convs),
                   Push(groups, GetDateGroup(UpdatedOrCreated(Head(convs)), day),
                        Head(convs)),
                   day)

\* Sidebar.tsx 32
GroupOrder == <<"Today", "Yesterday", "Previous 7 Days", "Previous 30 Days", "Older">>

\* the groups in the order in which the loop created them
OrderedAsInserted(groups) ==
    groups

\* Sidebar.tsx 40-46
Ordered(groups) ==
    LET upTo[i \in 0..Len(GroupOrder)] ==
          IF i = 0 THEN <<>>
          ELSE IF \E g \in DOMAIN groups : groups[g].label = GroupOrder[i]
            THEN Append(upTo[i - 1],
                        groups[CHOOSE g \in DOMAIN groups : groups[g].label = GroupOrder[i]])
            ELSE upTo[i - 1]
    IN upTo[Len(GroupOrder)]

\* Sidebar.tsx 30-48
GroupConversationsByDate(convs, day) == Ordered(GroupLoop(convs, <<>>, day))

\* Sidebar.tsx 76: a render of the sidebar
Render ==
    /\ grouped' = GroupConversationsByDate(conversations, today)
    /\ UNCHANGED <<notGroupVars, today>>

\* the dates of a listed conversation: updated on a day on either side of
\* each limit, or without updated_at and created on such a day, or without
\* both
Days == {Today + 1, Today, Today - 1, Today - 2, Today - 7, Today - 8,
         Today - 30, Today - 31}

Dates == {[updated_at |-> Stamp(d), created_at |-> Stamp(Today - 31)] : d \in Days}
         \cup {[updated_at |-> NoStamp, created_at |-> Stamp(d)] : d \in Days}
         \cup {[updated_at |-> NoStamp, created_at |-> NoStamp]}

Listings ==
    UNION {{[i \in 1..n |-> [id         |-> NumberToString(i),
                             updated_at |-> f[i].updated_at,
                             created_at |-> f[i].created_at]] : f \in [1..n -> Dates]}
           : n \in 0..MaxConvs}

\* the sidebar holds a list it has fetched, not yet grouped
InitGroup == \E list \in Listings : InitWith(list, <<>>, list)

NextGroup == Render

SpecGroup == InitGroup /\ [][NextGroup]_vars

\* the group a conversation belongs to, by its date alone
DateOfConv(conv) ==
    IF conv.updated_at.present THEN conv.updated_at.day
    ELSE IF conv.created_at.present THEN conv.created_at.day
    ELSE today - 31

ExpectedGroup(conv) ==
    LET age == today - DateOfConv(conv)
    IN  CASE age <= 0 -> 1
          [] age = 1 -> 2
          [] age \in 2..7 -> 3
          [] age \in 8..30 -> 4
          [] OTHER -> 5

\* the places <<g, j>> of the groups at which a conversation stands
Places(conv) ==
    {p \in UNION {{<<g, j>> : j \in DOMAIN grouped[g].items} : g \in DOMAIN grouped} :
        grouped[p[1]].items[p[2]] = conv}

\* the position of a conversation in the sidebar's list
Position(conv) == CHOOSE i \in DOMAIN conversations : conversations[i] = conv

\* C36: once the list is grouped, every conversation of the list stands at
\* exactly one place of the groups, in the group of its date (updated_at, or
\* created_at when updated_at is missing); every item of a group is a
\* conversation of the list; no group is empty; the groups come in the
\* order Today, Yesterday, Previous 7 Days, Previous 30 Days, Older; and
\* the items of a group are in the order of the list.
C36_GroupsPartition ==
    (grouped # <<>> \/ conversations = <<>>) =>
        /\ \A i \in DOMAIN conversations :
             /\ Cardinality(Places(conversations[i])) = 1
             /\ \A p \in Places(conversations[i]) :
                  grouped[p[1]].label = GroupOrder[ExpectedGroup(conversations[i])]
        /\ \A g \in DOMAIN grouped :
             /\ grouped[g].items # <<>>
             /\ \A j \in DOMAIN grouped[g].items :
                  \E i \in DOMAIN conversations : conversations[i] = grouped[g].items[j]
             /\ \A j, k \in DOMAIN grouped[g].items :
                  j < k => Position(grouped[g].items[j]) < Position(grouped[g].items[k])
        /\ \A g, h \in DOMAIN grouped :
             g < h => \E a, b \in DOMAIN GroupOrder :
                         /\ a < b
                         /\ grouped[g].label = GroupOrder[a]
                         /\ grouped[h].label = GroupOrder[b]

\* a grouped list whose first conversation is older than its second, with a
\* group of two and a conversation that has no updated_at
C36_Witness ==
    /\ Len(conversations) = 3
    /\ Len(grouped) = 2
    /\ grouped[1].label = "Today" /\ grouped[1].items = <<conversations[2]>>
    /\ grouped[2].label = "Older"
    /\ grouped[2].items = <<conversations[1], conversations[3]>>
    /\ ~conversations[3].updated_at.present

(***************************************************************************)
(* MermaidDiagram (unnamed/part_001 79-103).  A run of the effect is a     *)
(* record: the chart it renders, the isMounted flag of its closure and the *)
(* position of its mermaid.render call ("pending", "resolved",             *)
(* "rejected").  The last record is the run whose cleanup has not run.     *)
(***************************************************************************)
MaxRenders == 3

Charts == {"graph A", "graph B"}

\* the svg mermaid.render resolves with
SvgOf(c) == CASE c = "graph A" -> "<svg>A</svg>"
              [] c = "graph B" -> "<svg>B</svg>"

\* the effect as it would be without its cleanup
CleanupMissing(rs) ==
    rs

\* return () => { isMounted = false; } of the run that is current
Cleanup(rs) ==
    IF rs = <<>> THEN rs ELSE [rs EXCEPT ![Len(rs)].isMounted = FALSE]

\* let isMounted = true; renderDiagram() up to await mermaid.render(id, chart)
Effect(rs, c) ==
    Append(rs, [chart |-> c, isMounted |-> TRUE, state |-> "pending"])

\* the component mounts with its chart: fresh state, first run of the effect
Mount(c) ==
    /\ ~diagramMounted
    /\ Len(renders) < MaxRenders
    /\ diagramMounted' = TRUE
    /\ chart' = c
    /\ svgContent' = ""
    /\ diagramError' = FALSE
    /\ renders' = Effect(renders, c)
    /\ UNCHANGED notDiagramVars

\* the chart prop changes: cleanup of the current run, then the effect runs
\* again ([chart] is its dependency list)
ChartChanged(c) ==
    /\ diagramMounted
    /\ c # chart
    /\ Len(renders) < MaxRenders
    /\ chart' = c
    /\ renders' = Effect(Cleanup(renders), c)
    /\ UNCHANGED <<notDiagramVars, diagramMounted, svgContent, diagramError>>

\* the component unmounts: cleanup of the current run
Unmount ==
    /\ diagramMounted
    /\ diagramMounted' = FALSE
    /\ renders' = Cleanup(renders)
    /\ UNCHANGED <<notDiagramVars, chart, svgContent, diagramError>>

\* mermaid.render resolves: if (isMounted) { setSvgContent(svg); setError(false) }
RenderResolved(k) ==
    /\ renders[k].state = "pending"
    /\ renders' = [renders EXCEPT ![k].state = "resolved"]
    /\ IF renders[k].isMounted
         THEN /\ svgContent' = SvgOf(renders[k].chart)
              /\ diagramError' = FALSE
         ELSE UNCHANGED <<svgContent, diagramError>>
    /\ UNCHANGED <<notDiagramVars, diagramMounted, chart>>

\* mermaid.render rejects: if (isMounted) { setError(true) }
RenderRejected(k) ==
    /\ renders[k].state = "pending"
    /\ renders' = [renders EXCEPT ![k].state = "rejected"]
    /\ IF renders[k].isMounted
         THEN /\ diagramError' = TRUE
              /\ UNCHANGED svgContent
         ELSE UNCHANGED <<svgContent, diagramError>>
    /\ UNCHANGED <<notDiagramVars, diagramMounted, chart>>

NextDiagram ==
    \/ \E c \in Charts : Mount(c)
    \/ \E c \in Charts : ChartChanged(c)
    \/ Unmount
    \/ \E k \in DOMAIN renders : RenderResolved(k)
    \/ \E k \in DOMAIN renders : RenderRejected(k)

SpecDiagram == Init /\ [][NextDiagram]_vars

\* the render call of run k settles in this step
Settles(k) == renders[k].state = "pending" /\ renders'[k].state # "pending"

\* run k is not the run of the mounted component's present chart
Stale(k) == ~diagramMounted \/ k # Len(renders)

\* C37, as stated: a render call that settles after the chart changed or
\* the component unmounted changes neither svgContent nor error, and the
\* diagram the mounted component displays is always that of the present
\* chart.
C37_AlwaysLatest ==
    /\ [][\A k \in DOMAIN renders :
            (Settles(k) /\ Stale(k)) =>
                (svgContent' = svgContent /\ diagramError' = diagramError)]_vars
    /\ []((diagramMounted /\ ~diagramError /\ svgContent # "") =>
            svgContent = SvgOf(chart))

\* C37, amended: a render call that settles after the chart changed or the
\* component unmounted changes neither svgContent nor error; what a settling call of
\* the mounted component writes is the svg of the present chart; and once
\* the call of the present chart has settled, the component shows the svg
\* of that chart, or the error when that call was rejected.
C37_NoStaleRender ==
    /\ [][\A k \in DOMAIN renders :
            /\ (Settles(k) /\ Stale(k)) =>
                  (svgContent' = svgContent /\ diagramError' = diagramError)
            /\ (Settles(k) /\ svgContent' # svgContent) =>
                  svgContent' = SvgOf(chart)]_vars
    /\ [](diagramMounted =>
            /\ renders[Len(renders)].state = "resolved" =>
                  (svgContent = SvgOf(chart) /\ ~diagramError)
            /\ renders[Len(renders)].state = "rejected" => diagramError)

\* the call for a former chart resolved while the call for the present
\* chart is outstanding, and nothing was written
C37_Witness ==
    /\ diagramMounted
    /\ Len(renders) = 2
    /\ renders[1].state = "resolved" /\ renders[1].chart # chart
    /\ renders[2].state = "pending"
    /\ svgContent = ""
====
